---- MODULE Spec2Model ----
(***************************************************************************)
(* Wipe-detection pipeline of scanner.run_scan:                            *)
(*   reader -> classifier.classify_block -> aggregator.aggregate           *)
(*          -> scorer.compute_score                                        *)
(*                                                                         *)
(* Fixed-point conventions (the Python code uses floats):                  *)
(*   ratios      (zero_ratio, ff_ratio)     integer multiples of 1e-4      *)
(*   entropies                              integer multiples of 1e-6      *)
(*   uniformity                             integer multiples of 1e-6      *)
(*   confidences                            integer multiples of 1e-5      *)
(* round(x, k) and int(round(x)) are modelled as round-half-to-even of the *)
(* exact rational value.                                                   *)
(***************************************************************************)
EXTENDS Integers, Sequences, FiniteSets, TLC

VARIABLES image, pc, block_results, stages, aggregated, regions, stats

VARIABLES raised

VARIABLES rd, rb

\* raised: the last change a caller of compute_score made to its inputs
caller_vars == <<raised>>

\* rd: a BlockReader and the position of its iteration;
\* rb: the outcome of the last read_block call
reader_vars == <<rd, rb>>

VARIABLES scan_state, issued, disk, scheduled, task, response

\* scan_state: the server's session store;  issued: the session ids handed out;
\* disk: the files of the upload directory;  scheduled: the background tasks
\* added and not yet started;  task: the background task that occupies the
\* event loop;  response: the last HTTP response
server_vars == <<scan_state, issued, disk, scheduled, task, response>>

VARIABLES up

\* up: the upload that POST /upload is streaming, or the last one it ended
upload_vars == <<up>>

VARIABLES sample

\* sample: the bytes of a block handed to classify_block on its own
classifier_vars == <<sample>>

\* everything outside run_scan's pipeline and its callers
outer_vars == <<reader_vars, server_vars, upload_vars, classifier_vars>>

pipeline_vars == <<image, pc, block_results, stages, aggregated, regions, stats, caller_vars>>

vars == <<image, pc, block_results, stages, aggregated, regions, stats,
          caller_vars, outer_vars>>

(*************************** generic helpers *******************************)

Min(a, b) == IF a <= b THEN a ELSE b

Max(a, b) == IF a >= b THEN a ELSE b

\* Python round(): nearest integer to num/den (den > 0), ties to even.
RoundHalfEven(num, den) ==
    LET q == num \div den
        r == num - q * den
    IN  IF 2 * r < den THEN q
        ELSE IF 2 * r > den THEN q + 1
        ELSE IF q % 2 = 0 THEN q ELSE q + 1

\* sum(s[lo..hi]) of a sequence of integers, by halving the index range
RECURSIVE SumRange(_, _, _)
SumRange(s, lo, hi) ==
    IF lo > hi THEN 0
    ELSE IF lo = hi THEN s[lo]
    ELSE LET mid == (lo + hi) \div 2
         IN  SumRange(s, lo, mid) + SumRange(s, mid + 1, hi)

\* sum(s)
SumSeq(s) == SumRange(s, 1, Len(s))

\* index of the first suspicious block at or after i, Len(results) + 1 if none
\* (the loop iterations that only skip a non-suspicious block)
NextSuspicious(results, i) ==
    LET S == {k \in i..Len(results) : results[k].is_suspicious}
    IN  IF S = {} THEN Len(results) + 1
        ELSE CHOOSE k \in S : \A m \in S : k <= m

(************************ classifier.py thresholds *************************)

ZERO_FF_STRONG_MIN   == 9000       \* 0.90   (1e-4)
\* faulty variant of ZERO_FF_PARTIAL_MIN: the partial band is 0.10 wide and
\* starts above 0.70
ZERO_FF_PARTIAL_MIN_80 == ZERO_FF_STRONG_MIN - 1000
ZERO_FF_PARTIAL_MIN  == 6000       \* 0.60   (1e-4)
ENTROPY_FILL_MAX     == 200000     \* 0.20   (1e-6)
ENTROPY_RANDOM_MIN   == 7600000    \* 7.60   (1e-6)
UNIFORMITY_WIPE_MAX  == 14000      \* 0.0140 (1e-6)
ENTROPY_LOW_MIN      == 210000     \* 0.21   (1e-6)
ENTROPY_LOW_MAX      == 1500000    \* 1.50   (1e-6)
SUSPECT_DOMINANT_MAX == 85         \* 0.85   (percent)
MULTI_PASS_LO        == 3500000    \* 3.5    (1e-6)
MULTI_PASS_HI        == 6500000    \* 6.5    (1e-6)
MULTI_PASS_UNIF_MAX  == 8000       \* 0.0080 (1e-6)

(************************ aggregator.py tuning *****************************)

BLOCK_SIZE            == 512
MIN_REGION_BLOCKS     == 16
MAX_NORMAL_GAP        == 8
MULTI_PASS_MIN_BANDS  == 3
MULTI_PASS_GAP_BLOCKS == 4
ISOLATION_WINDOW      == 50

PARTIAL_WIPE_TYPES == {"LIKELY_ZERO_WIPE", "LIKELY_FF_WIPE", "LOW_ENTROPY_SUSPECT"}
STRONG_WIPE_TYPES  == {"ZERO_WIPE", "FF_WIPE", "RANDOM_WIPE", "MULTI_PASS"}

(***************************** classifier.py *******************************)

\* A block's bytes are abstracted by the byte statistics the classifier
\* reads from them:
\*   len      number of bytes            n0, nff   count of 0x00 / 0xFF bytes
\*   dom_byte most frequent byte value   dom_n     its count
\*   H        Shannon entropy of the block
\*   Hnz/Hnff Shannon entropy of the non-0x00 / non-0xFF bytes
\*   unif     distribution_uniformity of the byte frequencies
\*   legit    has_legitimate_structure(data, freq)

\* BlockResult
_result(block_id, offset, wipe_type, entropy, confidence, is_suspicious) ==
    [block_id      |-> block_id,
     offset        |-> offset,
     wipe_type     |-> wipe_type,
     entropy       |-> entropy,
     confidence    |-> confidence,
     is_suspicious |-> is_suspicious]

\* pure-Python path: zero_ratio/ff_ratio are rounded to 4 decimals,
\* dom_pct is the unrounded quotient dom_n / len
_stats_from_data(data) ==
    [entropy       |-> data.H,
     zero_ratio    |-> RoundHalfEven(data.n0 * 10000, data.len),
     ff_ratio      |-> RoundHalfEven(data.nff * 10000, data.len),
     dominant_byte |-> data.dom_byte,
     dom_n         |-> data.dom_n,
     len           |-> data.len]

_fill_conf(dominant_ratio, entropy) ==
    LET n == 500 * (55000 + 28 * (dominant_ratio - ZERO_FF_STRONG_MIN))
             + 17 * (500000 - Min(entropy, 500000))
    IN  100 * RoundHalfEven(Min(n, 100000 * 500), 50000)

_partial_conf(dominant_ratio) ==
    100 * RoundHalfEven(120000 + 32 * (dominant_ratio - ZERO_FF_PARTIAL_MIN), 300)

_random_conf(entropy, uniformity) ==
    LET n == 58000 * 1400 + 77 * (entropy - ENTROPY_RANDOM_MIN)
             + 1200 * (UNIFORMITY_WIPE_MAX - Min(uniformity, UNIFORMITY_WIPE_MAX))
    IN  100 * RoundHalfEven(Min(n, 92000 * 1400), 140000)

classify_block(block_id, offset, data) ==
    IF data.len = 0
    THEN _result(block_id, offset, "NORMAL", 0, 100000, FALSE)
    ELSE
    LET st == _stats_from_data(data)
        H  == st.entropy
    IN
    IF st.zero_ratio >= ZERO_FF_STRONG_MIN /\ H <= ENTROPY_FILL_MAX
    THEN _result(block_id, offset, "ZERO_WIPE", H,
                 _fill_conf(st.zero_ratio, H), TRUE)
    ELSE IF st.ff_ratio >= ZERO_FF_STRONG_MIN /\ H <= ENTROPY_FILL_MAX
    THEN _result(block_id, offset, "FF_WIPE", H,
                 (_fill_conf(st.ff_ratio, H) \div 100) * 96, TRUE)
    ELSE IF ZERO_FF_PARTIAL_MIN <= st.zero_ratio /\ st.zero_ratio < ZERO_FF_STRONG_MIN
    THEN IF data.n0 < data.len /\ data.Hnz > 3500000
         THEN _result(block_id, offset, "LIKELY_ZERO_WIPE", H,
                      _partial_conf(st.zero_ratio), TRUE)
         ELSE _result(block_id, offset, "NORMAL", H, 82000, FALSE)
    ELSE IF ZERO_FF_PARTIAL_MIN <= st.ff_ratio /\ st.ff_ratio < ZERO_FF_STRONG_MIN
    THEN IF data.nff < data.len /\ data.Hnff > 3500000
         THEN _result(block_id, offset, "LIKELY_FF_WIPE", H,
                      _partial_conf(st.ff_ratio), TRUE)
         ELSE _result(block_id, offset, "NORMAL", H, 82000, FALSE)
    ELSE IF H >= ENTROPY_RANDOM_MIN
    THEN IF data.unif <= UNIFORMITY_WIPE_MAX
         THEN IF data.legit
              THEN _result(block_id, offset, "NORMAL", H, 72000, FALSE)
              ELSE _result(block_id, offset, "RANDOM_WIPE", H,
                           _random_conf(H, data.unif), TRUE)
         ELSE _result(block_id, offset, "NORMAL", H, 87000, FALSE)
    ELSE IF ENTROPY_LOW_MIN < H /\ H <= ENTROPY_LOW_MAX
    THEN IF 100 * st.dom_n <= SUSPECT_DOMINANT_MAX * st.len /\ data.unif < 20000
         THEN _result(block_id, offset, "LOW_ENTROPY_SUSPECT", H, 52000, TRUE)
         ELSE _result(block_id, offset, "NORMAL", H, 82000, FALSE)
    ELSE IF MULTI_PASS_LO <= H /\ H <= MULTI_PASS_HI /\ data.unif < MULTI_PASS_UNIF_MAX
    THEN _result(block_id, offset, "MULTI_PASS", H, 52000, TRUE)
    ELSE IF st.dominant_byte = 0 /\ 70 * st.len <= 100 * st.dom_n
            /\ 10000 * st.dom_n < ZERO_FF_STRONG_MIN * st.len
    THEN _result(block_id, offset, "UNALLOCATED", H, 48000, FALSE)
    ELSE _result(block_id, offset, "NORMAL", H, 90000, FALSE)

(***************************** aggregator.py *******************************)

\* avg_entropy is kept exact as the pair <<sum, count>> (0.0 is <<0, 1>>).
Region(id, start_offset, end_offset, size, wipe_type, block_count, avg_entropy, confidence, blocks) ==
    [id           |-> id,
     start_offset |-> start_offset,
     end_offset   |-> end_offset,
     size         |-> size,
     wipe_type    |-> wipe_type,
     block_count  |-> block_count,
     avg_entropy  |-> avg_entropy,
     confidence   |-> confidence,
     blocks       |-> blocks]

Entropy(b) == b.entropy

\* mean entropy of all_blocks[bid] for the bid in ids that are in range
MeanEntropy(ids, all_blocks) ==
    LET valid == SelectSeq(ids, LAMBDA bid : bid < Len(all_blocks))
        E(bid) == all_blocks[bid + 1].entropy
    IN  IF valid = <<>> THEN <<0, 1>> ELSE <<SumSeq([k \in 1..Len(valid) |-> E(valid[k])]), Len(valid)>>

\* inner while loop of _merge_consecutive: first j (1-based) at or after j
\* whose block does not continue the run
RECURSIVE RunEnd(_, _, _)
RunEnd(results, j, wipe_type) ==
    IF j <= Len(results) /\ results[j].is_suspicious
       /\ results[j].wipe_type = wipe_type
    THEN RunEnd(results, j + 1, wipe_type)
    ELSE j

\* faulty variant of RunRegion: end_offset is the first byte after the run
RunRegionEndExclusive(run_blocks, region_id) ==
    LET start_off == run_blocks[1].block_id * BLOCK_SIZE
        end_off   == run_blocks[Len(run_blocks)].block_id * BLOCK_SIZE + BLOCK_SIZE
    IN  Region(region_id, start_off, end_off, end_off - start_off + 1,
               run_blocks[1].wipe_type, Len(run_blocks),
               <<SumSeq([k \in 1..Len(run_blocks) |-> Entropy(run_blocks[k])]), Len(run_blocks)>>, 0,
               [k \in 1..Len(run_blocks) |-> run_blocks[k].block_id])

\* the Region appended for one run of blocks
RunRegion(run_blocks, region_id) ==
    LET start_off == run_blocks[1].block_id * BLOCK_SIZE
        end_off   == run_blocks[Len(run_blocks)].block_id * BLOCK_SIZE
                     + BLOCK_SIZE - 1
    IN  Region(region_id, start_off, end_off, end_off - start_off + 1,
               run_blocks[1].wipe_type, Len(run_blocks),
               <<SumSeq([k \in 1..Len(run_blocks) |-> Entropy(run_blocks[k])]), Len(run_blocks)>>, 0,
               [k \in 1..Len(run_blocks) |-> run_blocks[k].block_id])

RECURSIVE MergeFrom(_, _, _)
MergeFrom(results, i, region_id) ==
    IF i > Len(results) THEN <<>>
    ELSE IF ~results[i].is_suspicious
    THEN MergeFrom(results, NextSuspicious(results, i), region_id)
    ELSE
        LET j == RunEnd(results, i + 1, results[i].wipe_type)
        IN  <<RunRegion(SubSeq(results, i, j - 1), region_id)>>
            \o MergeFrom(results, j, region_id + 1)

_merge_consecutive(results) == MergeFrom(results, 1, 0)

\* faulty variant of AbsorbStep: the gap block ids are not added to blocks
AbsorbStepNoGapIds(merged, curr, all_blocks) ==
    LET prev == merged[Len(merged)]
        prev_last_block  == IF prev.blocks # <<>>
                            THEN prev.blocks[Len(prev.blocks)] ELSE -999
        curr_first_block == IF curr.blocks # <<>> THEN curr.blocks[1] ELSE 9999
        gap_blocks       == curr_first_block - prev_last_block - 1
        merged_blocks    == prev.blocks \o curr.blocks
    IN  IF prev.wipe_type # curr.wipe_type THEN Append(merged, curr)
        ELSE IF gap_blocks <= MAX_NORMAL_GAP
        THEN [merged EXCEPT ![Len(merged)] =
                Region(prev.id, prev.start_offset, curr.end_offset,
                       curr.end_offset - prev.start_offset + 1,
                       prev.wipe_type, Len(merged_blocks),
                       MeanEntropy(merged_blocks, all_blocks), 0, merged_blocks)]
        ELSE Append(merged, curr)

\* faulty variant of AbsorbStep: < instead of <= against MAX_NORMAL_GAP
AbsorbStepGapBelow(merged, curr, all_blocks) ==
    LET prev == merged[Len(merged)]
        prev_last_block  == IF prev.blocks # <<>>
                            THEN prev.blocks[Len(prev.blocks)] ELSE -999
        curr_first_block == IF curr.blocks # <<>> THEN curr.blocks[1] ELSE 9999
        gap_blocks       == curr_first_block - prev_last_block - 1
        gap_block_ids    == [k \in 1..Max(gap_blocks, 0) |-> prev_last_block + k]
        merged_blocks    == prev.blocks \o gap_block_ids \o curr.blocks
        all_ids          == prev.blocks \o curr.blocks
    IN  IF prev.wipe_type # curr.wipe_type THEN Append(merged, curr)
        ELSE IF gap_blocks < MAX_NORMAL_GAP
        THEN [merged EXCEPT ![Len(merged)] =
                Region(prev.id, prev.start_offset, curr.end_offset,
                       curr.end_offset - prev.start_offset + 1,
                       prev.wipe_type, Len(merged_blocks),
                       MeanEntropy(all_ids, all_blocks), 0, merged_blocks)]
        ELSE Append(merged, curr)

\* faulty variant of AbsorbStep: a gap of MAX_NORMAL_GAP + 1 blocks is absorbed
AbsorbStepGapAbove(merged, curr, all_blocks) ==
    LET prev == merged[Len(merged)]
        prev_last_block  == IF prev.blocks # <<>>
                            THEN prev.blocks[Len(prev.blocks)] ELSE -999
        curr_first_block == IF curr.blocks # <<>> THEN curr.blocks[1] ELSE 9999
        gap_blocks       == curr_first_block - prev_last_block - 1
        gap_block_ids    == [k \in 1..Max(gap_blocks, 0) |-> prev_last_block + k]
        merged_blocks    == prev.blocks \o gap_block_ids \o curr.blocks
        all_ids          == prev.blocks \o curr.blocks
    IN  IF prev.wipe_type # curr.wipe_type THEN Append(merged, curr)
        ELSE IF gap_blocks <= MAX_NORMAL_GAP + 1
        THEN [merged EXCEPT ![Len(merged)] =
                Region(prev.id, prev.start_offset, curr.end_offset,
                       curr.end_offset - prev.start_offset + 1,
                       prev.wipe_type, Len(merged_blocks),
                       MeanEntropy(all_ids, all_blocks), 0, merged_blocks)]
        ELSE Append(merged, curr)

\* one iteration of the for loop of _absorb_noise
AbsorbStep(merged, curr, all_blocks) ==
    LET prev == merged[Len(merged)]
        prev_last_block  == IF prev.blocks # <<>>
                            THEN prev.blocks[Len(prev.blocks)] ELSE -999
        curr_first_block == IF curr.blocks # <<>> THEN curr.blocks[1] ELSE 9999
        gap_blocks       == curr_first_block - prev_last_block - 1
        gap_block_ids    == [k \in 1..Max(gap_blocks, 0) |-> prev_last_block + k]
        merged_blocks    == prev.blocks \o gap_block_ids \o curr.blocks
        all_ids          == prev.blocks \o curr.blocks
    IN  IF prev.wipe_type # curr.wipe_type THEN Append(merged, curr)
        ELSE IF gap_blocks <= MAX_NORMAL_GAP
        THEN [merged EXCEPT ![Len(merged)] =
                Region(prev.id, prev.start_offset, curr.end_offset,
                       curr.end_offset - prev.start_offset + 1,
                       prev.wipe_type, Len(merged_blocks),
                       MeanEntropy(all_ids, all_blocks), 0, merged_blocks)]
        ELSE Append(merged, curr)

RECURSIVE AbsorbFrom(_, _, _, _)
AbsorbFrom(merged, rs, k, all_blocks) ==
    IF k > Len(rs) THEN merged
    ELSE AbsorbFrom(AbsorbStep(merged, rs[k], all_blocks), rs, k + 1, all_blocks)

_absorb_noise(rs, all_blocks) ==
    IF Len(rs) < 2 THEN rs
    ELSE AbsorbFrom(<<rs[1]>>, rs, 2, all_blocks)

\* faulty variant of _filter_by_size: nothing is dropped
_filter_by_size_keep_all(rs) == rs

\* faulty variant of _filter_by_size: > instead of >=
_filter_by_size_strict(rs) ==
    SelectSeq(rs, LAMBDA r : r.block_count > MIN_REGION_BLOCKS)

_filter_by_size(rs) ==
    SelectSeq(rs, LAMBDA r : r.block_count >= MIN_REGION_BLOCKS)

\* faulty variant of BandEnd: == instead of != between the two wipe types
RECURSIVE BandEndSameType(_, _)
BandEndSameType(rs, j) ==
    IF j > Len(rs) THEN j
    ELSE
        LET prev == rs[j - 1]
            curr == rs[j]
            gap_blocks     == (curr.start_offset - prev.end_offset - 1) \div BLOCK_SIZE
            is_adjacent    == gap_blocks <= MULTI_PASS_GAP_BLOCKS
            is_alternating == /\ curr.wipe_type = prev.wipe_type
                              /\ curr.wipe_type \in STRONG_WIPE_TYPES
                              /\ prev.wipe_type \in STRONG_WIPE_TYPES
        IN  IF is_adjacent /\ is_alternating THEN BandEndSameType(rs, j + 1) ELSE j

\* inner while loop of _detect_multi_pass: first j not joining the band group
\* (band_group[-1] is rs[j - 1])
RECURSIVE BandEnd(_, _)
BandEnd(rs, j) ==
    IF j > Len(rs) THEN j
    ELSE
        LET prev == rs[j - 1]
            curr == rs[j]
            gap_blocks     == (curr.start_offset - prev.end_offset - 1) \div BLOCK_SIZE
            is_adjacent    == gap_blocks <= MULTI_PASS_GAP_BLOCKS
            is_alternating == /\ curr.wipe_type # prev.wipe_type
                              /\ curr.wipe_type \in STRONG_WIPE_TYPES
                              /\ prev.wipe_type \in STRONG_WIPE_TYPES
        IN  IF is_adjacent /\ is_alternating THEN BandEnd(rs, j + 1) ELSE j

RECURSIVE ConcatBlocks(_, _)
ConcatBlocks(group, n) ==
    IF n = 0 THEN <<>> ELSE ConcatBlocks(group, n - 1) \o group[n].blocks

BlockCount(r) == r.block_count

\* faulty variant of MultiPassFrom: a band group of two regions is converted
RECURSIVE MultiPassFromTwoBands(_, _, _)
MultiPassFromTwoBands(rs, i, all_blocks) ==
    IF i > Len(rs) THEN <<>>
    ELSE
        LET j          == BandEnd(rs, i + 1)
            band_group == SubSeq(rs, i, j - 1)
            first      == band_group[1]
            last       == band_group[Len(band_group)]
            all_block_ids == ConcatBlocks(band_group, Len(band_group))
        IN  IF Len(band_group) >= MULTI_PASS_MIN_BANDS - 1
            THEN <<Region(0, first.start_offset, last.end_offset,
                          last.end_offset - first.start_offset + 1,
                          "MULTI_PASS", SumSeq([k \in 1..Len(band_group) |-> BlockCount(band_group[k])]),
                          MeanEntropy(all_block_ids, all_blocks), 0,
                          all_block_ids)>>
                 \o MultiPassFromTwoBands(rs, j, all_blocks)
            ELSE <<rs[i]>> \o MultiPassFromTwoBands(rs, i + 1, all_blocks)

RECURSIVE MultiPassFrom(_, _, _)
MultiPassFrom(rs, i, all_blocks) ==
    IF i > Len(rs) THEN <<>>
    ELSE
        LET j          == BandEnd(rs, i + 1)
            band_group == SubSeq(rs, i, j - 1)
            first      == band_group[1]
            last       == band_group[Len(band_group)]
            all_block_ids == ConcatBlocks(band_group, Len(band_group))
        IN  IF Len(band_group) >= MULTI_PASS_MIN_BANDS
            THEN <<Region(0, first.start_offset, last.end_offset,
                          last.end_offset - first.start_offset + 1,
                          "MULTI_PASS", SumSeq([k \in 1..Len(band_group) |-> BlockCount(band_group[k])]),
                          MeanEntropy(all_block_ids, all_blocks), 0,
                          all_block_ids)>>
                 \o MultiPassFrom(rs, j, all_blocks)
            ELSE <<rs[i]>> \o MultiPassFrom(rs, i + 1, all_blocks)

_detect_multi_pass(rs, all_blocks) ==
    IF Len(rs) < MULTI_PASS_MIN_BANDS THEN rs
    ELSE MultiPassFrom(rs, 1, all_blocks)

Elems(s) == {s[k] : k \in 1..Len(s)}

\* faulty variant of _suppress_false_positives: the blocks of every region,
\* strong or not, count as corroborating evidence
_suppress_false_positives_any_type(rs, all_blocks) ==
    LET strong_block_ids == UNION {Elems(rs[k].blocks) : k \in 1..Len(rs)}
        Keep(r) ==
            IF r.wipe_type \notin PARTIAL_WIPE_TYPES THEN TRUE
            ELSE
                LET first_block  == IF r.blocks # <<>> THEN r.blocks[1] ELSE 0
                    last_block   == IF r.blocks # <<>>
                                    THEN r.blocks[Len(r.blocks)] ELSE 0
                    window_start == Max(0, first_block - ISOLATION_WINDOW)
                    window_end   == last_block + ISOLATION_WINDOW
                IN  \E bid \in strong_block_ids :
                        window_start <= bid /\ bid <= window_end
    IN  IF rs = <<>> THEN rs ELSE SelectSeq(rs, Keep)

_suppress_false_positives(rs, all_blocks) ==
    LET strong_block_ids ==
            UNION {Elems(rs[k].blocks) :
                     k \in {n \in 1..Len(rs) : rs[n].wipe_type \in STRONG_WIPE_TYPES}}
        Keep(r) ==
            IF r.wipe_type \notin PARTIAL_WIPE_TYPES THEN TRUE
            ELSE
                LET first_block  == IF r.blocks # <<>> THEN r.blocks[1] ELSE 0
                    last_block   == IF r.blocks # <<>>
                                    THEN r.blocks[Len(r.blocks)] ELSE 0
                    window_start == Max(0, first_block - ISOLATION_WINDOW)
                    window_end   == last_block + ISOLATION_WINDOW
                IN  \E bid \in strong_block_ids :
                        window_start <= bid /\ bid <= window_end
    IN  IF rs = <<>> THEN rs ELSE SelectSeq(rs, Keep)

type_adj(wipe_type) ==
    CASE wipe_type = "ZERO_WIPE"           -> 0
      [] wipe_type = "FF_WIPE"             -> -2000
      [] wipe_type = "RANDOM_WIPE"         -> -4000
      [] wipe_type = "MULTI_PASS"          -> -8000
      [] wipe_type = "LIKELY_ZERO_WIPE"    -> -12000
      [] wipe_type = "LIKELY_FF_WIPE"      -> -12000
      [] wipe_type = "LOW_ENTROPY_SUSPECT" -> -15000
      [] OTHER                             -> 0

\* body of the for loop of _compute_confidence; the sum
\*   avg_conf + size_bonus + density_bonus + type_adj
\* is taken over the common denominator 32 * len(valid_block_ids)
RegionConfidence(r, all_blocks) ==
    LET valid_block_ids == SelectSeq(r.blocks, LAMBDA bid : bid < Len(all_blocks))
        n               == Len(valid_block_ids)
        Conf(bid)       == all_blocks[bid + 1].confidence
        Susp(bid)       == IF all_blocks[bid + 1].is_suspicious THEN 1 ELSE 0
        conf_sum        == SumSeq([k \in 1..Len(valid_block_ids) |-> Conf(valid_block_ids[k])])
        susp_in_region  == SumSeq([k \in 1..Len(valid_block_ids) |-> Susp(valid_block_ids[k])])
        total           == 32 * conf_sum
                           + 625 * Min(r.block_count, 512) * n
                           + (2 * susp_in_region - n) * 5000 * 32
                           + type_adj(r.wipe_type) * 32 * n
        clamped         == Min(Max(total, 0), 100000 * 32 * n)
    IN  IF n = 0 THEN 50000
        ELSE 100 * RoundHalfEven(clamped, 100 * 32 * n)

_compute_confidence(rs, all_blocks) ==
    [k \in 1..Len(rs) |->
        [rs[k] EXCEPT !.confidence = RegionConfidence(rs[k], all_blocks)]]

\* the five intermediate lists of aggregate()
AggregateStages(results) ==
    LET raw        == _merge_consecutive(results)
        absorbed   == _absorb_noise(raw, results)
        sized      == _filter_by_size(absorbed)
        with_multi == _detect_multi_pass(sized, results)
        clean      == _suppress_false_positives(with_multi, results)
    IN  [raw |-> raw, absorbed |-> absorbed, sized |-> sized,
         with_multi |-> with_multi, clean |-> clean]

NoStages == [raw |-> <<>>, absorbed |-> <<>>, sized |-> <<>>,
             with_multi |-> <<>>, clean |-> <<>>]

aggregate(results) ==
    IF results = <<>> THEN <<>>
    ELSE
        LET scored == _compute_confidence(AggregateStages(results).clean, results)
        IN  [k \in 1..Len(scored) |-> [scored[k] EXCEPT !.id = k]]

(******************************* scorer.py *********************************)

verdict_order == <<"NEGLIGIBLE", "LOW", "MEDIUM", "HIGH">>

\* verdict_order.index(v), 1-based
VerdictIndex(v) == CHOOSE k \in 1..Len(verdict_order) : verdict_order[k] = v

SCORED_TYPES == STRONG_WIPE_TYPES \cup PARTIAL_WIPE_TYPES

\* faulty variant of _empty_stats: a placeholder verdict is left in
_empty_stats_unknown_verdict ==
    [total_blocks        |-> 0,
     suspicious_blocks   |-> 0,
     suspicious_pct      |-> <<0, 1>>,
     wipe_density        |-> <<0, 1>>,
     regions_count       |-> 0,
     avg_entropy_flagged |-> <<0, 1>>,
     intent_score        |-> 0,
     verdict             |-> "UNKNOWN",
     wipe_type_counts    |-> [t \in SCORED_TYPES |-> 0]]

_empty_stats ==
    [total_blocks        |-> 0,
     suspicious_blocks   |-> 0,
     suspicious_pct      |-> <<0, 1>>,
     wipe_density        |-> <<0, 1>>,
     regions_count       |-> 0,
     avg_entropy_flagged |-> <<0, 1>>,
     intent_score        |-> 0,
     verdict             |-> "NEGLIGIBLE",
     wipe_type_counts    |-> [t \in SCORED_TYPES |-> 0]]

\* faulty variant of density_verdict: the floor for two suspicious blocks
\* is missing
density_verdict_no_count_floor(n_susp, total) ==
    IF 100 * n_susp > 30 * total THEN "HIGH"
    ELSE IF 100 * n_susp > 10 * total THEN "MEDIUM"
    ELSE IF 100 * n_susp > 2 * total THEN "LOW"
    ELSE "NEGLIGIBLE"

\* Stage 1: density fast-path verdict floor (wipe_density = n_susp / total)
density_verdict(n_susp, total) ==
    IF 100 * n_susp > 30 * total THEN "HIGH"
    ELSE IF 100 * n_susp > 10 * total THEN "MEDIUM"
    ELSE IF 100 * n_susp > 2 * total THEN "LOW"
    ELSE IF n_susp >= 2 THEN "LOW"
    ELSE "NEGLIGIBLE"

\* Stage 4: verdict from the intent score
score_verdict(intent_score) ==
    IF intent_score >= 70 THEN "HIGH"
    ELSE IF intent_score >= 35 THEN "MEDIUM"
    ELSE IF intent_score >= 10 THEN "LOW"
    ELSE "NEGLIGIBLE"

\* faulty variant of final_verdict: the density verdict replaces the score
\* verdict instead of only raising it
final_verdict_density_only(sv, dv) == dv

final_verdict(sv, dv) == verdict_order[Max(VerdictIndex(sv), VerdictIndex(dv))]

\* faulty variant of intent_score: the region score is left out of raw_score
intent_score_no_region_score(total, n_susp, type_counts, rs) ==
    LET n_regions     == Len(rs)
        n_rand        == Len(SelectSeq(rs, LAMBDA r : r.wipe_type = "RANDOM_WIPE"))
        n_multi       == Len(SelectSeq(rs, LAMBDA r : r.wipe_type = "MULTI_PASS"))
        coverage6     == 6 * Min(400 * n_susp, 40 * total)
        region6       == 6 * total * Min(2 * n_regions, 20)
        rand6         == 2 * total * Min(25 * n_rand, 75)
        multi6        == 3 * total * Min(15 * n_multi, 30)
        strong_count  == type_counts["ZERO_WIPE"] + type_counts["FF_WIPE"]
                         + type_counts["RANDOM_WIPE"] + type_counts["MULTI_PASS"]
        partial_count == type_counts["LIKELY_ZERO_WIPE"] + type_counts["LIKELY_FF_WIPE"]
                         + type_counts["LOW_ENTROPY_SUSPECT"]
        penalty1      == IF n_susp > 0 /\ partial_count > strong_count
                            /\ strong_count < 10 THEN 10 ELSE 0
        Conf(r)       == r.confidence
        penalty2      == IF rs # <<>> /\ SumSeq([k \in 1..Len(rs) |-> Conf(rs[k])]) < 55000 * Len(rs)
                         THEN 5 ELSE 0
        raw6          == coverage6 + rand6 + multi6
                         - 6 * total * (penalty1 + penalty2)
    IN  Min(Max(RoundHalfEven(raw6, 6 * total), 0), 100)

\* faulty variant of intent_score: len(rand_regions) // 3 instead of / 3.0
intent_score_rand_floor_div(total, n_susp, type_counts, rs) ==
    LET n_regions     == Len(rs)
        n_rand        == Len(SelectSeq(rs, LAMBDA r : r.wipe_type = "RANDOM_WIPE"))
        n_multi       == Len(SelectSeq(rs, LAMBDA r : r.wipe_type = "MULTI_PASS"))
        coverage6     == 6 * Min(400 * n_susp, 40 * total)
        region6       == 6 * total * Min(2 * n_regions, 20)
        rand6         == 6 * total * Min(n_rand \div 3, 1) * 25
        multi6        == 3 * total * Min(15 * n_multi, 30)
        strong_count  == type_counts["ZERO_WIPE"] + type_counts["FF_WIPE"]
                         + type_counts["RANDOM_WIPE"] + type_counts["MULTI_PASS"]
        partial_count == type_counts["LIKELY_ZERO_WIPE"] + type_counts["LIKELY_FF_WIPE"]
                         + type_counts["LOW_ENTROPY_SUSPECT"]
        penalty1      == IF n_susp > 0 /\ partial_count > strong_count
                            /\ strong_count < 10 THEN 10 ELSE 0
        Conf(r)       == r.confidence
        penalty2      == IF rs # <<>> /\ SumSeq([k \in 1..Len(rs) |-> Conf(rs[k])]) < 55000 * Len(rs)
                         THEN 5 ELSE 0
        raw6          == coverage6 + region6 + rand6 + multi6
                         - 6 * total * (penalty1 + penalty2)
    IN  Min(Max(RoundHalfEven(raw6, 6 * total), 0), 100)

\* faulty variant of intent_score: the region score is subtracted from raw_score
intent_score_region_score_subtracted(total, n_susp, type_counts, rs) ==
    LET n_regions     == Len(rs)
        n_rand        == Len(SelectSeq(rs, LAMBDA r : r.wipe_type = "RANDOM_WIPE"))
        n_multi       == Len(SelectSeq(rs, LAMBDA r : r.wipe_type = "MULTI_PASS"))
        coverage6     == 6 * Min(400 * n_susp, 40 * total)
        region6       == 6 * total * Min(2 * n_regions, 20)
        rand6         == 2 * total * Min(25 * n_rand, 75)
        multi6        == 3 * total * Min(15 * n_multi, 30)
        strong_count  == type_counts["ZERO_WIPE"] + type_counts["FF_WIPE"]
                         + type_counts["RANDOM_WIPE"] + type_counts["MULTI_PASS"]
        partial_count == type_counts["LIKELY_ZERO_WIPE"] + type_counts["LIKELY_FF_WIPE"]
                         + type_counts["LOW_ENTROPY_SUSPECT"]
        penalty1      == IF n_susp > 0 /\ partial_count > strong_count
                            /\ strong_count < 10 THEN 10 ELSE 0
        Conf(r)       == r.confidence
        penalty2      == IF rs # <<>> /\ SumSeq([k \in 1..Len(rs) |-> Conf(rs[k])]) < 55000 * Len(rs)
                         THEN 5 ELSE 0
        raw6          == coverage6 - region6 + rand6 + multi6
                         - 6 * total * (penalty1 + penalty2)
    IN  Min(Max(RoundHalfEven(raw6, 6 * total), 0), 100)

\* Stages 2 and 3; raw_score is taken over the common denominator 6 * total
intent_score(total, n_susp, type_counts, rs) ==
    LET n_regions     == Len(rs)
        n_rand        == Len(SelectSeq(rs, LAMBDA r : r.wipe_type = "RANDOM_WIPE"))
        n_multi       == Len(SelectSeq(rs, LAMBDA r : r.wipe_type = "MULTI_PASS"))
        coverage6     == 6 * Min(400 * n_susp, 40 * total)
        region6       == 6 * total * Min(2 * n_regions, 20)
        rand6         == 2 * total * Min(25 * n_rand, 75)
        multi6        == 3 * total * Min(15 * n_multi, 30)
        strong_count  == type_counts["ZERO_WIPE"] + type_counts["FF_WIPE"]
                         + type_counts["RANDOM_WIPE"] + type_counts["MULTI_PASS"]
        partial_count == type_counts["LIKELY_ZERO_WIPE"] + type_counts["LIKELY_FF_WIPE"]
                         + type_counts["LOW_ENTROPY_SUSPECT"]
        penalty1      == IF n_susp > 0 /\ partial_count > strong_count
                            /\ strong_count < 10 THEN 10 ELSE 0
        Conf(r)       == r.confidence
        penalty2      == IF rs # <<>> /\ SumSeq([k \in 1..Len(rs) |-> Conf(rs[k])]) < 55000 * Len(rs)
                         THEN 5 ELSE 0
        raw6          == coverage6 + region6 + rand6 + multi6
                         - 6 * total * (penalty1 + penalty2)
    IN  Min(Max(RoundHalfEven(raw6, 6 * total), 0), 100)

compute_score(blocks, rs) ==
    LET total       == Len(blocks)
        suspicious  == SelectSeq(blocks, LAMBDA b : b.is_suspicious)
        n_susp      == Len(suspicious)
        type_counts == [t \in SCORED_TYPES |->
                          Len(SelectSeq(suspicious, LAMBDA b : b.wipe_type = t))]
        score       == intent_score(total, n_susp, type_counts, rs)
    IN  IF total = 0 THEN _empty_stats
        ELSE [total_blocks        |-> total,
              suspicious_blocks   |-> n_susp,
              suspicious_pct      |-> <<100 * n_susp, total>>,
              wipe_density        |-> <<n_susp, total>>,
              regions_count       |-> Len(rs),
              avg_entropy_flagged |-> IF n_susp > 0
                                      THEN <<SumSeq([k \in 1..Len(suspicious) |-> Entropy(suspicious[k])]), n_susp>>
                                      ELSE <<0, 1>>,
              intent_score        |-> score,
              verdict             |-> final_verdict(score_verdict(score),
                                                    density_verdict(n_susp, total)),
              wipe_type_counts    |-> type_counts]

(******************************* scanner.py ********************************)

\* _flush: one region per run of consecutive suspicious blocks, typed by the
\* most frequent wipe_type of the run (first seen wins a tie)
FlushRegion(run, region_id, block_size) ==
    LET Count(t)  == Len(SelectSeq(run, LAMBDA b : b.wipe_type = t))
        FirstAt(t) == CHOOSE k \in 1..Len(run) :
                         run[k].wipe_type = t
                         /\ \A m \in 1..(k - 1) : run[m].wipe_type # t
        types     == {run[k].wipe_type : k \in 1..Len(run)}
        dominant_type == CHOOSE t \in types :
                            \A u \in types :
                               \/ Count(t) > Count(u)
                               \/ Count(t) = Count(u) /\ FirstAt(t) <= FirstAt(u)
        Conf(b)   == b.confidence
        start_offset == run[1].offset
        end_offset   == run[Len(run)].offset + block_size
    IN  Region(region_id, start_offset, end_offset, end_offset - start_offset,
               dominant_type, Len(run),
               <<SumSeq([k \in 1..Len(run) |-> Entropy(run[k])]), Len(run)>>,
               10 * RoundHalfEven(SumSeq([k \in 1..Len(run) |-> Conf(run[k])]), 10 * Len(run)),
               <<>>)

RECURSIVE SuspEnd(_, _)
SuspEnd(results, j) ==
    IF j <= Len(results) /\ results[j].is_suspicious
    THEN SuspEnd(results, j + 1) ELSE j

RECURSIVE FallbackFrom(_, _, _, _)
FallbackFrom(results, i, region_id, block_size) ==
    IF i > Len(results) THEN <<>>
    ELSE IF ~results[i].is_suspicious
    THEN FallbackFrom(results, NextSuspicious(results, i), region_id, block_size)
    ELSE LET j == SuspEnd(results, i + 1)
         IN  <<FlushRegion(SubSeq(results, i, j - 1), region_id, block_size)>>
             \o FallbackFrom(results, j, region_id + 1, block_size)

_fallback_aggregate(results) ==
    LET inferred   == IF Len(results) >= 2
                      THEN results[2].offset - results[1].offset ELSE 512
        block_size == IF inferred <= 0 THEN 512 ELSE inferred
    IN  FallbackFrom(results, 1, 0, block_size)

(****************************** input images *******************************)

\* Concrete 512-byte block contents, named by kind, with the statistics the
\* classifier computes from them.
\*   zero         512 x 0x00
\*   zero_dirty   507 x 0x00 followed by 01 02 03 04 05
\*   ff           512 x 0xFF
\*   ff_dirty     504 x 0xFF followed by 8 x 0x01
\*   likely_zero  384 x 0x00 followed by the bytes 0x01..0x80
\*   likely_ff    384 x 0xFF followed by the bytes 0x00..0x7F
\*   sparse       384 x 0x00 followed by 128 x 0x41
\*   random       every byte value exactly twice, shuffled
\*   random_dup   200 byte values, 112 of them three times and 88 twice, shuffled
\*   flat64       the 64 values 0x80..0xBF, eight times each
\*   text         English text
Stat(len, n0, nff, dom_byte, dom_n, H, Hnz, Hnff, unif, legit) ==
    [len |-> len, n0 |-> n0, nff |-> nff, dom_byte |-> dom_byte, dom_n |-> dom_n,
     H |-> H, Hnz |-> Hnz, Hnff |-> Hnff, unif |-> unif, legit |-> legit]

BlockData(kind) ==
    CASE kind = "zero"        -> Stat(512, 512, 0, 0, 512, 0, 0, 0, 62378, TRUE)
      [] kind = "zero_dirty"  -> Stat(512, 507, 0, 0, 507, 101910, 2321928, 101910, 61767, TRUE)
      [] kind = "ff"          -> Stat(512, 0, 512, 255, 512, 0, 0, 0, 62378, TRUE)
      [] kind = "ff_dirty"    -> Stat(512, 0, 504, 255, 504, 116115, 116115, 0, 61407, TRUE)
      [] kind = "likely_zero" -> Stat(512, 384, 0, 0, 384, 2561278, 7000000, 2561278, 46732, TRUE)
      [] kind = "likely_ff"   -> Stat(512, 1, 384, 255, 384, 2561278, 2545857, 7000000, 46732, TRUE)
      [] kind = "sparse"      -> Stat(512, 384, 0, 0, 384, 811278, 0, 811278, 49256, TRUE)
      [] kind = "random"      -> Stat(512, 2, 2, 0, 2, 8000000, 7994353, 7994353, 0, FALSE)
      [] kind = "random_dup"  -> Stat(512, 3, 0, 0, 3, 7616118, 7608825, 7616118, 2238, FALSE)
      [] kind = "flat64"      -> Stat(512, 0, 0, 128, 8, 6000000, 6000000, 6000000, 6766, TRUE)
      [] kind = "text"        -> Stat(512, 0, 0, 32, 102, 4443850, 4443850, 4443850, 15980, TRUE)

\* n copies of one block kind
Run(kind, n) == [k \in 1..n |-> kind]

\* An image is laid out as segments: gap blocks of text, then len blocks of
\* one kind.  The segment shapes sit on both sides of the aggregator's
\* thresholds: inter-band gap 4 / 5, absorbed gap 8 / 9, isolation gap 49 / 50,
\* half-size runs of 8 and full-size runs of 16.
MaxSegs == 3

Segments ==
    [gap : {0, 4, 5},  kind : {"zero", "ff"},          len : {16}] \cup
    [gap : {8, 9},     kind : {"zero", "likely_zero"}, len : {8}]  \cup
    [gap : {0, 49, 50}, kind : {"likely_zero"},        len : {16}] \cup
    [gap : {49, 50},   kind : {"zero"},                len : {16}] \cup
    [gap : {0},        kind : {"flat64"},              len : {16}]

SegBlocks(sg) == Run("text", sg.gap) \o Run(sg.kind, sg.len)

RECURSIVE Layout(_, _)
Layout(segs, n) ==
    IF n = 0 THEN <<>> ELSE Layout(segs, n - 1) \o SegBlocks(segs[n])

Images ==
    UNION {{Layout(segs, n) : segs \in [1..n -> Segments]} : n \in 0..MaxSegs}

\* The end-to-end scenarios: one run of suspicious blocks between two flanks
\* of text blocks, and alternating 16-block bands.
MaxFlank == 249

Flanks == {0, 1, 60, MaxFlank - 1, MaxFlank}

Flanked(kind, n) ==
    {Run("text", a) \o Run(kind, n) \o Run("text", b) : a \in Flanks, b \in Flanks}

Bands(k1, k2) ==
    Run(k1, 16) \o Run(k2, 16) \o Run(k1, 16) \o Run(k2, 16)
    \o Run(k1, 16) \o Run(k2, 16)

ScenarioImages ==
    Flanked("zero", 64) \cup Flanked("zero_dirty", 64)
    \cup Flanked("likely_zero", 40)
    \cup {Bands(k1, k2) : k1 \in {"zero", "zero_dirty"}, k2 \in {"ff", "ff_dirty"}}
    \cup Flanked("random", 32) \cup Flanked("random_dup", 32)
    \cup Flanked("zero", 15) \cup Flanked("zero", 16)

(******************************* reader.py *********************************)

\* BlockReader.__iter__ with default bounds: block k (0-based) of the image
ReadBlock(img, k) ==
    [id |-> k, offset |-> k * BLOCK_SIZE, data |-> BlockData(img[k + 1])]

READ_CHUNK_BLOCKS == 1024

\* The bytes of an image file are identified with their positions: a bytes
\* value read from the file is the pair <<lo, hi>> of the positions lo..hi-1.
\* f.read(n) at position pos of a file of size bytes
FileRead(pos, n, size) == <<Min(pos, size), Min(pos + n, size)>>

\* chunk[i : i + n]
Slice(chunk, i, n) ==
    <<Min(chunk[1] + i, chunk[2]), Min(chunk[1] + i + n, chunk[2])>>

DataLen(data) == data[2] - data[1]

Block(id, offset, data) == [id |-> id, offset |-> offset, data |-> data]

NoBlock == [id |-> -1, offset |-> -1, data |-> <<0, 0>>]

\* end_block = None
NoEnd == -1

\* BlockReader.__init__ on an existing file of image_size bytes
BlockReader(image_size, block_size, start_block, end_block) ==
    [image_size   |-> image_size,
     block_size   |-> block_size,
     start_block  |-> start_block,
     end_block    |-> end_block,
     total_blocks |-> (image_size + block_size - 1) \div block_size]

\* faulty variant of read_block: > instead of >= in the range check
read_block_strict(reader, block_id) ==
    LET offset == block_id * reader.block_size
    IN  IF offset > reader.image_size
        THEN [id |-> block_id, error |-> "IndexError", block |-> NoBlock]
        ELSE [id |-> block_id, error |-> "none",
              block |-> Block(block_id, offset,
                              FileRead(offset, reader.block_size, reader.image_size))]

read_block(reader, block_id) ==
    LET offset == block_id * reader.block_size
    IN  IF offset >= reader.image_size
        THEN [id |-> block_id, error |-> "IndexError", block |-> NoBlock]
        ELSE [id |-> block_id, error |-> "none",
              block |-> Block(block_id, offset,
                              FileRead(offset, reader.block_size, reader.image_size))]

NoRead == [id |-> -1, error |-> "none", block |-> NoBlock]

NoReader ==
    [reader |-> BlockReader(0, BLOCK_SIZE, 0, NoEnd), phase |-> "idle", block_id |-> 0,
     pos |-> 0, chunk |-> <<0, 0>>, i |-> 0, yielded |-> NoBlock, count |-> 0]

ReaderIdle == rd = NoReader /\ rb = NoRead

\* the image sizes reach past MaxChunks read chunks
MaxChunks == 2

BlockSizes == {3, BLOCK_SIZE}

ImageSizes(block_size) ==
    {c * READ_CHUNK_BLOCKS * block_size + r :
        c \in 0..MaxChunks, r \in {0, 1, block_size - 1, block_size}}

\* iter(BlockReader(path, block_size)) before its first step
ReaderInit ==
    /\ \E block_size \in BlockSizes : \E image_size \in ImageSizes(block_size) :
          rd = [NoReader EXCEPT !.reader = BlockReader(image_size, block_size, 0, NoEnd),
                                !.phase = "new"]
    /\ rb = NoRead

PastEnd(r, block_id) == r.end_block # NoEnd /\ block_id > r.end_block

\* __iter__ up to the while loop: open the file and seek to the first block
IterStart ==
    /\ rd.phase = "new"
    /\ rd' = [rd EXCEPT !.phase = "read",
                        !.block_id = rd.reader.start_block,
                        !.pos = rd.reader.start_block * rd.reader.block_size]
    /\ UNCHANGED <<rb, pipeline_vars, server_vars, upload_vars, classifier_vars>>

\* one pass of the while loop up to the for loop: read the next chunk
IterRead ==
    /\ rd.phase = "read"
    /\ LET r          == rd.reader
           chunk_size == READ_CHUNK_BLOCKS * r.block_size
           chunk      == FileRead(rd.pos, chunk_size, r.image_size)
       IN  IF PastEnd(r, rd.block_id) THEN rd' = [rd EXCEPT !.phase = "done"]
           ELSE IF DataLen(chunk) = 0
           THEN rd' = [rd EXCEPT !.phase = "done", !.pos = chunk[2]]
           ELSE rd' = [rd EXCEPT !.phase = "slice", !.pos = chunk[2],
                                 !.chunk = chunk, !.i = 0]
    /\ UNCHANGED <<rb, pipeline_vars, server_vars, upload_vars, classifier_vars>>

\* faulty variant of IterNext: the offset is computed with the module's
\* BLOCK_SIZE instead of self.block_size
IterNextGlobalBlockSize ==
    /\ rd.phase = "slice"
    /\ LET r    == rd.reader
           data == Slice(rd.chunk, rd.i, r.block_size)
       IN  IF rd.i >= DataLen(rd.chunk) \/ PastEnd(r, rd.block_id) \/ DataLen(data) = 0
           THEN rd' = [rd EXCEPT !.phase = "read"]
           ELSE rd' = [rd EXCEPT !.yielded = Block(rd.block_id,
                                                  rd.block_id * BLOCK_SIZE, data),
                                 !.count = rd.count + 1,
                                 !.block_id = rd.block_id + 1,
                                 !.i = rd.i + r.block_size]
    /\ UNCHANGED <<rb, pipeline_vars, server_vars, upload_vars, classifier_vars>>

\* one pass of the for loop: yield the next block of the chunk, or leave the
\* loop at the end of the chunk
IterNext ==
    /\ rd.phase = "slice"
    /\ LET r    == rd.reader
           data == Slice(rd.chunk, rd.i, r.block_size)
       IN  IF rd.i >= DataLen(rd.chunk) \/ PastEnd(r, rd.block_id) \/ DataLen(data) = 0
           THEN rd' = [rd EXCEPT !.phase = "read"]
           ELSE rd' = [rd EXCEPT !.yielded = Block(rd.block_id,
                                                  rd.block_id * r.block_size, data),
                                 !.count = rd.count + 1,
                                 !.block_id = rd.block_id + 1,
                                 !.i = rd.i + r.block_size]
    /\ UNCHANGED <<rb, pipeline_vars, server_vars, upload_vars, classifier_vars>>

\* the block ids read_block is called with
ReadIds(r) ==
    {id \in {0, 1, READ_CHUNK_BLOCKS, r.total_blocks - 1, r.total_blocks} : id >= 0}

\* a call of read_block on the same reader
RandomAccess ==
    /\ rd.phase # "idle"
    /\ \E block_id \in ReadIds(rd.reader) :
          /\ rb' = read_block(rd.reader, block_id)
          /\ rb' # rb
    /\ UNCHANGED <<rd, pipeline_vars, server_vars, upload_vars, classifier_vars>>

(************************* scanner.py: run_scan ****************************)

NoRaise == [input |-> "none", stats_before |-> _empty_stats, regions_before |-> <<>>]

CallerIdle == raised = NoRaise

(********************* backend_integrate.py: the server *********************)

\* the session ids that uuid4 hands out
SessionIds == {"SID-0A1B2C3D", "SID-4E5F6A7B"}

NoId == ""

\* the images that are uploaded, by file name
ImageNames == {"text1030.dd"}

\* a short image, uploaded where the length of the scan does not matter
ShortImageNames == {"text6.dd"}

\* text1030.dd has more than one read chunk and more than 1000 blocks
ImageContent(name) ==
    IF name \in ShortImageNames THEN Run("text", 6)
    ELSE Run("text", READ_CHUNK_BLOCKS + 6)

NoFile == "missing"

NoSession == [status |-> "absent", progress |-> 0, json_path |-> FALSE, error |-> ""]

NoTask == [session_id |-> NoId, phase |-> "none", total |-> 0, opened |-> FALSE, fault |-> "none"]

NoResponse == [request |-> "none", session_id |-> NoId, code |-> 0]

ServerIdle ==
    /\ scan_state = [s \in SessionIds |-> NoSession]
    /\ issued = {}
    /\ disk = [image  |-> [s \in SessionIds |-> NoFile],
               result |-> [s \in SessionIds |-> "nothing"]]
    /\ scheduled = [s \in SessionIds |-> 0]
    /\ task = NoTask
    /\ response = NoResponse

\* a handler runs when the event loop is not held by a background task:
\* _run_scan_task is a coroutine that calls run_scan without awaiting
LoopFree == task = NoTask

Respond(request, session_id, code) ==
    [request |-> request, session_id |-> session_id, code |-> code]

\* POST /upload: a fresh session id, the image stored, the session pending
upload_image(s, name) ==
    /\ LoopFree
    /\ s \notin issued
    /\ issued' = issued \cup {s}
    /\ disk' = [disk EXCEPT !.image[s] = name]
    /\ scan_state' = [scan_state EXCEPT ![s] =
                         [status |-> "pending", progress |-> 0,
                          json_path |-> FALSE, error |-> ""]]
    /\ response' = Respond("upload", s, 200)
    /\ UNCHANGED <<scheduled, task, pipeline_vars, reader_vars, upload_vars, classifier_vars>>

\* faulty variant of start_scan: the 409 check is missing
start_scan_no_conflict_check(s) ==
    /\ LoopFree
    /\ IF scan_state[s] = NoSession
       THEN /\ response' = Respond("scan", s, 404)
            /\ UNCHANGED <<scan_state, scheduled>>
       ELSE /\ scan_state' = [scan_state EXCEPT ![s].status = "running",
                                                ![s].progress = 0]
            /\ scheduled' = [scheduled EXCEPT ![s] = scheduled[s] + 1]
            /\ response' = Respond("scan", s, 200)
    /\ UNCHANGED <<issued, disk, task, pipeline_vars, reader_vars, upload_vars, classifier_vars>>

\* POST /scan
start_scan(s) ==
    /\ LoopFree
    /\ IF scan_state[s] = NoSession
       THEN /\ response' = Respond("scan", s, 404)
            /\ UNCHANGED <<scan_state, scheduled>>
       ELSE IF scan_state[s].status = "running"
       THEN /\ response' = Respond("scan", s, 409)
            /\ UNCHANGED <<scan_state, scheduled>>
       ELSE /\ scan_state' = [scan_state EXCEPT ![s].status = "running",
                                                ![s].progress = 0]
            /\ scheduled' = [scheduled EXCEPT ![s] = scheduled[s] + 1]
            /\ response' = Respond("scan", s, 200)
    /\ UNCHANGED <<issued, disk, task, pipeline_vars, reader_vars, upload_vars, classifier_vars>>

\* GET /scan/status/{session_id}
scan_status(s) ==
    /\ LoopFree
    /\ response' = IF scan_state[s] = NoSession
                   THEN Respond("status", s, 404)
                   ELSE Respond("status", s, 200)
    /\ UNCHANGED <<scan_state, issued, disk, scheduled, task,
                   pipeline_vars, reader_vars, upload_vars, classifier_vars>>

\* GET /results/{session_id}
get_results(s) ==
    /\ LoopFree
    /\ response' = IF scan_state[s] = NoSession THEN Respond("results", s, 404)
                   ELSE IF scan_state[s].status # "done" THEN Respond("results", s, 425)
                   ELSE IF disk.result[s] = "nothing" THEN Respond("results", s, 404)
                   ELSE Respond("results", s, 200)
    /\ UNCHANGED <<scan_state, issued, disk, scheduled, task,
                   pipeline_vars, reader_vars, upload_vars, classifier_vars>>

\* faulty variant of delete_session: the result document is not removed
delete_session_keeps_result(s) ==
    /\ LoopFree
    /\ disk' = [disk EXCEPT !.image[s] = NoFile]
    /\ scan_state' = [scan_state EXCEPT ![s] = NoSession]
    /\ response' = Respond("delete", s, 200)
    /\ UNCHANGED <<issued, scheduled, task, pipeline_vars, reader_vars, upload_vars, classifier_vars>>

\* DELETE /session/{session_id}
delete_session(s) ==
    /\ LoopFree
    /\ disk' = [disk EXCEPT !.image[s] = NoFile, !.result[s] = "nothing"]
    /\ scan_state' = [scan_state EXCEPT ![s] = NoSession]
    /\ response' = Respond("delete", s, 200)
    /\ UNCHANGED <<issued, scheduled, task, pipeline_vars, reader_vars, upload_vars, classifier_vars>>

\* the image file is removed by another process
ImageLost(s) ==
    /\ disk.image[s] # NoFile
    /\ disk' = [disk EXCEPT !.image[s] = NoFile]
    /\ UNCHANGED <<scan_state, issued, scheduled, task, response,
                   pipeline_vars, reader_vars, upload_vars, classifier_vars>>

(***************** backend_integrate.py: upload_image, by chunk *************)

CHUNK_SIZE == 1024 * 1024

\* a byte count is kept as <<multiples of CHUNK_SIZE, bytes below CHUNK_SIZE>>
ByteCount(chunks, rest) == <<chunks, rest>>

\* 8 * 1024 * 1024 * 1024 bytes
MAX_SIZE == ByteCount(8 * 1024, 0)

\* count + n, for n up to CHUNK_SIZE
Plus(count, n) ==
    ByteCount(count[1] + (count[2] + n) \div CHUNK_SIZE, (count[2] + n) % CHUNK_SIZE)

\* a > b
Greater(a, b) == a[1] > b[1] \/ (a[1] = b[1] /\ a[2] > b[2])

\* len(await file.read(CHUNK_SIZE)) at position pos of a file of the given size
ReadLen(size, pos) ==
    IF size[1] - pos[1] >= 2 THEN CHUNK_SIZE
    ELSE Min(CHUNK_SIZE, (size[1] - pos[1]) * CHUNK_SIZE + size[2] - pos[2])

NoUpload == [phase |-> "none", session_id |-> NoId, size |-> ByteCount(0, 0),
             total_bytes |-> ByteCount(0, 0), written |-> ByteCount(0, 0)]

UploadIdle == up = NoUpload

\* the sizes of the files that are uploaded
UploadSizes ==
    {ByteCount(0, 0), ByteCount(1, 1), ByteCount(8 * 1024 - 1, CHUNK_SIZE - 1),
     MAX_SIZE, ByteCount(8 * 1024, 1), ByteCount(8 * 1024 + 1, 1)}

\* the upload has ended: what is kept of it
Ended(phase, total_bytes) ==
    [up EXCEPT !.phase = phase, !.total_bytes = total_bytes,
               !.written = ByteCount(0, 0)]

\* session id, save path, aiofiles.open(save_path, "wb")
UploadOpen(s, name, size) ==
    /\ LoopFree
    /\ up.phase \notin {"stream", "hash"}
    /\ s \notin issued
    /\ issued' = issued \cup {s}
    /\ disk' = [disk EXCEPT !.image[s] = name]
    /\ up' = [phase |-> "stream", session_id |-> s, size |-> size,
              total_bytes |-> ByteCount(0, 0), written |-> ByteCount(0, 0)]
    /\ UNCHANGED <<scan_state, scheduled, task, response, pipeline_vars, reader_vars, classifier_vars>>

\* faulty variant of UploadChunk: the size is tested against the bytes
\* written so far, before the chunk is counted
UploadChunkLateCheck ==
    /\ LoopFree
    /\ up.phase = "stream"
    /\ LET s == up.session_id
           n == ReadLen(up.size, up.total_bytes)
           total == Plus(up.total_bytes, n)
       IN  IF n = 0
           THEN /\ up' = [up EXCEPT !.phase = "hash"]
                /\ UNCHANGED <<disk, response>>
           ELSE IF Greater(up.total_bytes, MAX_SIZE)
           THEN /\ disk' = [disk EXCEPT !.image[s] = NoFile]
                /\ response' = Respond("upload", s, 413)
                /\ up' = Ended("rejected", total)
           ELSE \/ /\ up' = [up EXCEPT !.total_bytes = total,
                                       !.written = Plus(up.written, n)]
                   /\ UNCHANGED <<disk, response>>
                \/ /\ disk' = [disk EXCEPT !.image[s] = NoFile]
                   /\ response' = Respond("upload", s, 500)
                   /\ up' = Ended("failed", ByteCount(0, 0))
    /\ UNCHANGED <<scan_state, issued, scheduled, task, pipeline_vars, reader_vars, classifier_vars>>

\* one turn of the loop: read a chunk, count it, reject with 413 when the
\* count exceeds MAX_SIZE, else write it; an exception of the write is
\* answered with 500 after the file is unlinked
UploadChunk ==
    /\ LoopFree
    /\ up.phase = "stream"
    /\ LET s == up.session_id
           n == ReadLen(up.size, up.total_bytes)
           total == Plus(up.total_bytes, n)
       IN  IF n = 0
           THEN /\ up' = [up EXCEPT !.phase = "hash"]
                /\ UNCHANGED <<disk, response>>
           ELSE IF Greater(total, MAX_SIZE)
           THEN /\ disk' = [disk EXCEPT !.image[s] = NoFile]
                /\ response' = Respond("upload", s, 413)
                /\ up' = Ended("rejected", total)
           ELSE \/ /\ up' = [up EXCEPT !.total_bytes = total,
                                       !.written = Plus(up.written, n)]
                   /\ UNCHANGED <<disk, response>>
                \/ /\ disk' = [disk EXCEPT !.image[s] = NoFile]
                   /\ response' = Respond("upload", s, 500)
                   /\ up' = Ended("failed", ByteCount(0, 0))
    /\ UNCHANGED <<scan_state, issued, scheduled, task, pipeline_vars, reader_vars, classifier_vars>>

\* hash_file, then the session is registered as pending; an exception of
\* hash_file is answered with 500 after the file is unlinked
UploadHash ==
    /\ LoopFree
    /\ up.phase = "hash"
    /\ LET s == up.session_id
       IN  \/ /\ scan_state' = [scan_state EXCEPT ![s] =
                                   [status |-> "pending", progress |-> 0,
                                    json_path |-> FALSE, error |-> ""]]
              /\ response' = Respond("upload", s, 200)
              /\ up' = Ended("done", up.total_bytes)
              /\ UNCHANGED disk
           \/ /\ disk' = [disk EXCEPT !.image[s] = NoFile]
              /\ response' = Respond("upload", s, 500)
              /\ up' = Ended("failed", ByteCount(0, 0))
              /\ UNCHANGED scan_state
    /\ UNCHANGED <<issued, scheduled, task, pipeline_vars, reader_vars, classifier_vars>>

\* no block is handed to classify_block on its own
NoSample == Stat(0, 0, 0, 0, 0, 0, 0, 0, 0, FALSE)

ClassifierIdle == sample = NoSample

OuterIdle == ReaderIdle /\ ServerIdle /\ UploadIdle /\ ClassifierIdle

Start ==
    /\ pc = "start"
    /\ CallerIdle
    /\ OuterIdle
    /\ block_results = <<>>
    /\ stages = NoStages
    /\ aggregated = <<>>
    /\ regions = <<>>
    /\ stats = _empty_stats

Init == image \in Images /\ Start

ScenarioInit == image \in ScenarioImages /\ Start

\* Phase 1: classify every block
Classify ==
    /\ pc = "start"
    /\ block_results' =
          [k \in 1..Len(image) |->
              LET block == ReadBlock(image, k - 1)
              IN  classify_block(block.id, block.offset, block.data)]
    /\ pc' = "classified"
    /\ UNCHANGED <<image, stages, aggregated, regions, stats, caller_vars, outer_vars>>

\* Phase 2: aggregate into regions, with the fallback aggregation
Aggregate ==
    /\ pc = "classified"
    /\ LET result       == aggregate(block_results)
           n_suspicious == Len(SelectSeq(block_results, LAMBDA b : b.is_suspicious))
       IN  /\ aggregated' = result
           /\ regions' = IF Len(result) = 0 /\ n_suspicious > 0
                         THEN _fallback_aggregate(block_results)
                         ELSE result
    /\ stages' = IF block_results = <<>> THEN NoStages
                 ELSE AggregateStages(block_results)
    /\ pc' = "aggregated"
    /\ UNCHANGED <<image, block_results, stats, caller_vars, outer_vars>>

\* Phase 3: compute the intent score
Score ==
    /\ pc = "aggregated"
    /\ stats' = compute_score(block_results, regions)
    /\ pc' = "scored"
    /\ UNCHANGED <<image, block_results, stages, aggregated, regions, caller_vars, outer_vars>>

Next == Classify \/ Aggregate \/ Score

Spec == Init /\ [][Next]_vars

ScenarioSpec == ScenarioInit /\ [][Next]_vars

(******************* scorer.py: callers of compute_score *******************)

\* compute_score is called again after one of its four positive inputs was
\* raised and the other three were left as they were.  The streams have
\* ScoreTotal blocks, at most MaxScoreSusp of them suspicious, and there are
\* at most MaxScoreRegions regions.
ScoreTotal == 40

MaxScoreSusp == 12

MaxScoreRegions == 2

ScoreStream(z, l) ==
    Run("zero", z) \o Run("likely_zero", l) \o Run("text", ScoreTotal - z - l)

ClassifyAll(img) ==
    [k \in 1..Len(img) |->
        LET block == ReadBlock(img, k - 1)
        IN  classify_block(block.id, block.offset, block.data)]

KindCount(img, kind) == Len(SelectSeq(img, LAMBDA k : k = kind))

\* wipe_type and confidence of regions the pipeline returns:
\*   ZERO_WIPE 1.0           16 zero blocks (aggregate)
\*   LIKELY_ZERO_WIPE 0.56   run of likely_zero blocks (fallback aggregation)
\*   LIKELY_ZERO_WIPE 0.402  run of blocks with 60 % zero bytes (fallback)
\*   RANDOM_WIPE 0.936       32 random blocks (aggregate)
\*   MULTI_PASS 0.493        16 flat64 blocks (aggregate)
RegionShapes ==
    {[wipe_type |-> "ZERO_WIPE", confidence |-> 100000],
     [wipe_type |-> "LIKELY_ZERO_WIPE", confidence |-> 56000],
     [wipe_type |-> "LIKELY_ZERO_WIPE", confidence |-> 40200],
     [wipe_type |-> "RANDOM_WIPE", confidence |-> 93600],
     [wipe_type |-> "MULTI_PASS", confidence |-> 49300]}

ShapedRegion(shape, id) ==
    Region(id, 0, MIN_REGION_BLOCKS * BLOCK_SIZE - 1, MIN_REGION_BLOCKS * BLOCK_SIZE,
           shape.wipe_type, MIN_REGION_BLOCKS, <<0, 1>>, shape.confidence, <<>>)

ScoreInit ==
    /\ image = ScoreStream(0, 0)
    /\ pc = "scored"
    /\ block_results = ClassifyAll(image)
    /\ stages = NoStages
    /\ aggregated = <<>>
    /\ regions = <<>>
    /\ stats = compute_score(block_results, regions)
    /\ CallerIdle
    /\ OuterIdle

\* the next call of compute_score, on blocks and rs
ScoreAgain(img, rs, input) ==
    /\ image' = img
    /\ block_results' = ClassifyAll(img)
    /\ regions' = rs
    /\ stats' = compute_score(ClassifyAll(img), rs)
    /\ raised' = [input |-> input, stats_before |-> stats, regions_before |-> regions]
    /\ UNCHANGED <<pc, stages, aggregated, outer_vars>>

\* one more block of the stream is suspicious: suspicious_pct rises
RaiseSuspicious(kind) ==
    /\ pc = "scored"
    /\ stats.suspicious_blocks < MaxScoreSusp
    /\ stats.suspicious_blocks < ScoreTotal
    /\ LET z == KindCount(image, "zero") + (IF kind = "zero" THEN 1 ELSE 0)
           l == KindCount(image, "likely_zero") + (IF kind = "likely_zero" THEN 1 ELSE 0)
       IN  ScoreAgain(ScoreStream(z, l), regions, "suspicious_pct")

\* one more region that is neither RANDOM_WIPE nor MULTI_PASS: len(regions) rises
RaiseRegions(shape) ==
    /\ pc = "scored"
    /\ Len(regions) < MaxScoreRegions
    /\ shape.wipe_type \notin {"RANDOM_WIPE", "MULTI_PASS"}
    /\ ScoreAgain(image, Append(regions, ShapedRegion(shape, Len(regions) + 1)), "regions")

\* region k, neither RANDOM_WIPE nor MULTI_PASS, is replaced by a region of
\* type wipe_type: the number of regions of that type rises
RaiseTyped(k, shape, input) ==
    /\ pc = "scored"
    /\ k \in 1..Len(regions)
    /\ regions[k].wipe_type \notin {"RANDOM_WIPE", "MULTI_PASS"}
    /\ ScoreAgain(image, [regions EXCEPT ![k] = ShapedRegion(shape, k)], input)

RaiseRandom ==
    \E k \in 1..MaxScoreRegions : \E shape \in RegionShapes :
        shape.wipe_type = "RANDOM_WIPE" /\ RaiseTyped(k, shape, "random_regions")

RaiseMulti ==
    \E k \in 1..MaxScoreRegions : \E shape \in RegionShapes :
        shape.wipe_type = "MULTI_PASS" /\ RaiseTyped(k, shape, "multi_regions")

ScoreNext ==
    \/ \E kind \in {"zero", "likely_zero"} : RaiseSuspicious(kind)
    \/ \E shape \in RegionShapes : RaiseRegions(shape)
    \/ RaiseRandom
    \/ RaiseMulti

ScoreSpec == ScoreInit /\ [][ScoreNext]_vars

(* compute_score on streams with few suspicious blocks: wipe_density lies
   on both sides of 0.02 *)

MaxVerdictSusp == 3

VerdictTotals == {2, 99, 100, 101}

VerdictStreams ==
    {Run("zero", z) \o Run("likely_zero", l) \o Run("text", t - z - l) :
        <<z, l, t>> \in {x \in (0..MaxVerdictSusp) \X (0..MaxVerdictSusp) \X VerdictTotals :
                            x[1] + x[2] <= x[3]}}

\* the region lists that compute_score is called with
RegionLists ==
    UNION {{[k \in 1..n |-> ShapedRegion(f[k], k)] : f \in [1..n -> RegionShapes]} :
             n \in 0..MaxScoreRegions}

VerdictInit == image \in VerdictStreams /\ Start

\* compute_score(block_results, rs)
ScoreWith(rs) ==
    /\ pc = "classified"
    /\ regions' = rs
    /\ stats' = compute_score(block_results, rs)
    /\ pc' = "scored"
    /\ UNCHANGED <<image, block_results, stages, aggregated, caller_vars, outer_vars>>

VerdictNext == Classify \/ \E rs \in RegionLists : ScoreWith(rs)

VerdictSpec == VerdictInit /\ [][VerdictNext]_vars

(* classify_block on single blocks of 0 to 512 bytes.  The blocks are
   given by their bytes; the statistics are those the classifier computes
   from them. *)

PatternBlocks == {
    \* n0 bytes 0x00 followed by bytes 0x41 (lengths 1, 2, 10, 509, 511, 512)
    Stat(1, 0, 0, 65, 1, 0, 0, 0, 62378, TRUE),
    Stat(1, 1, 0, 0, 1, 0, 0, 0, 62378, TRUE),
    Stat(2, 0, 0, 65, 2, 0, 0, 0, 62378, TRUE),
    Stat(2, 1, 0, 0, 1, 1000000, 0, 1000000, 44021, TRUE),
    Stat(2, 2, 0, 0, 2, 0, 0, 0, 62378, TRUE),
    Stat(10, 0, 0, 65, 10, 0, 0, 0, 62378, TRUE),
    Stat(10, 1, 0, 65, 9, 468996, 0, 468996, 56461, TRUE),
    Stat(10, 2, 0, 65, 8, 721928, 0, 721928, 51391, TRUE),
    Stat(10, 3, 0, 65, 7, 881291, 0, 881291, 47438, TRUE),
    Stat(10, 4, 0, 65, 6, 970951, 0, 970951, 44900, TRUE),
    Stat(10, 5, 0, 0, 5, 1000000, 0, 1000000, 44021, TRUE),
    Stat(10, 6, 0, 0, 6, 970951, 0, 970951, 44900, TRUE),
    Stat(10, 7, 0, 0, 7, 881291, 0, 881291, 47438, TRUE),
    Stat(10, 8, 0, 0, 8, 721928, 0, 721928, 51391, TRUE),
    Stat(10, 9, 0, 0, 9, 468996, 0, 468996, 56461, TRUE),
    Stat(10, 10, 0, 0, 10, 0, 0, 0, 62378, TRUE),
    Stat(509, 254, 0, 65, 255, 999997, 0, 999997, 44021, TRUE),
    Stat(509, 255, 0, 0, 255, 999997, 0, 999997, 44021, TRUE),
    Stat(509, 305, 0, 0, 305, 971408, 0, 971408, 44886, TRUE),
    Stat(509, 306, 0, 0, 306, 970257, 0, 970257, 44920, TRUE),
    Stat(509, 356, 0, 0, 356, 882010, 0, 882010, 47419, TRUE),
    Stat(509, 357, 0, 0, 357, 879603, 0, 879603, 47483, TRUE),
    Stat(509, 458, 0, 0, 458, 469618, 0, 469618, 56450, TRUE),
    Stat(509, 459, 0, 0, 459, 463365, 0, 463365, 56559, TRUE),
    Stat(511, 255, 0, 65, 256, 999997, 0, 999997, 44021, TRUE),
    Stat(511, 256, 0, 0, 256, 999997, 0, 999997, 44021, TRUE),
    Stat(511, 306, 0, 0, 306, 971633, 0, 971633, 44879, TRUE),
    Stat(511, 307, 0, 0, 307, 970491, 0, 970491, 44913, TRUE),
    Stat(511, 357, 0, 0, 357, 882959, 0, 882959, 47393, TRUE),
    Stat(511, 358, 0, 0, 358, 880572, 0, 880572, 47457, TRUE),
    Stat(511, 459, 0, 0, 459, 474554, 0, 474554, 56364, TRUE),
    Stat(511, 460, 0, 0, 460, 468375, 0, 468375, 56472, TRUE),
    Stat(512, 255, 0, 65, 257, 999989, 0, 999989, 44022, TRUE),
    Stat(512, 256, 0, 0, 256, 1000000, 0, 1000000, 44021, TRUE),
    Stat(512, 307, 0, 0, 307, 971179, 0, 971179, 44893, TRUE),
    Stat(512, 308, 0, 0, 308, 970029, 0, 970029, 44927, TRUE),
    Stat(512, 358, 0, 0, 358, 882244, 0, 882244, 47412, TRUE),
    Stat(512, 359, 0, 0, 359, 879854, 0, 879854, 47477, TRUE),
    Stat(512, 460, 0, 0, 460, 473929, 0, 473929, 56375, TRUE),
    Stat(512, 461, 0, 0, 461, 467756, 0, 467756, 56483, TRUE),
    \* 512 bytes: n0 x 0x00 followed by the bytes 0x01..0x80 in turn
    Stat(512, 306, 0, 0, 306, 3760233, 6929219, 3760233, 37221, TRUE),
    Stat(512, 307, 0, 0, 307, 3745189, 6928261, 3745189, 37343, TRUE),
    Stat(512, 308, 0, 0, 308, 3730136, 6927327, 3730136, 37465, TRUE),
    Stat(512, 358, 0, 0, 358, 2966394, 6929124, 2966394, 43561, TRUE),
    Stat(512, 359, 0, 0, 359, 2950909, 6930590, 2950909, 43683, TRUE),
    Stat(512, 436, 0, 0, 436, 1533343, 6247928, 1533343, 53090, TRUE),
    Stat(512, 460, 0, 0, 460, 1052880, 5700440, 1052880, 56023, TRUE),
    Stat(512, 461, 0, 0, 461, 1032783, 5672425, 1032783, 56145, TRUE),
    \* 512 bytes: nff x 0xFF followed by bytes 0x41
    Stat(512, 0, 255, 65, 257, 999989, 999989, 0, 44022, TRUE),
    Stat(512, 0, 256, 65, 256, 1000000, 1000000, 0, 44021, TRUE),
    Stat(512, 0, 307, 255, 307, 971179, 971179, 0, 44893, TRUE),
    Stat(512, 0, 308, 255, 308, 970029, 970029, 0, 44927, TRUE),
    Stat(512, 0, 358, 255, 358, 882244, 882244, 0, 47412, TRUE),
    Stat(512, 0, 359, 255, 359, 879854, 879854, 0, 47477, TRUE),
    Stat(512, 0, 460, 255, 460, 473929, 473929, 0, 56375, TRUE),
    Stat(512, 0, 461, 255, 461, 467756, 467756, 0, 56483, TRUE),
    \* 512 bytes: nff x 0xFF followed by the bytes 0x01..0x80 in turn
    Stat(512, 0, 307, 255, 307, 3745189, 3745189, 6928261, 37343, TRUE),
    Stat(512, 0, 308, 255, 308, 3730136, 3730136, 6927327, 37465, TRUE),
    Stat(512, 0, 460, 255, 460, 1052880, 1052880, 5700440, 56023, TRUE),
    Stat(512, 0, 461, 255, 461, 1032783, 1032783, 5672425, 56145, TRUE),
    \* 512 bytes: a x 0x41 followed by bytes 0x42
    Stat(512, 0, 0, 65, 500, 160329, 160329, 160329, 60928, TRUE),
    Stat(512, 0, 0, 65, 495, 210209, 210209, 210209, 60334, TRUE),
    Stat(512, 0, 0, 65, 472, 395538, 395538, 395538, 57692, TRUE),
    Stat(512, 0, 0, 65, 436, 605916, 605916, 605916, 53884, TRUE),
    Stat(512, 0, 0, 65, 435, 610817, 610817, 610817, 53784, TRUE),
    Stat(512, 0, 0, 65, 384, 811278, 811278, 811278, 49256, TRUE),
    Stat(512, 0, 0, 65, 256, 1000000, 1000000, 1000000, 44021, TRUE),
    \* 512 bytes: a x 0x00 followed by bytes 0x01 and 0x02 in turn (zero_ratio below 0.60)
    Stat(512, 300, 0, 0, 300, 1392647, 1000000, 1392647, 40752, TRUE),
    Stat(512, 256, 0, 0, 256, 1500000, 1000000, 1500000, 38073, TRUE),
    Stat(512, 171, 0, 0, 171, 1584957, 999994, 1584957, 35872, TRUE),
    \* 512 bytes of 3, 4 and 16 byte values in equal shares
    Stat(512, 0, 0, 16, 171, 1584957, 1584957, 1584957, 35872, TRUE),
    Stat(512, 0, 0, 16, 128, 2000000, 2000000, 2000000, 31005, TRUE),
    Stat(512, 0, 0, 16, 32, 4000000, 4000000, 4000000, 15129, TRUE)}

ClassifierBlocks ==
    {Stat(0, 0, 0, 0, 0, 0, 0, 0, 0, FALSE)} \cup PatternBlocks
    \cup {BlockData(kind) : kind \in {"zero", "zero_dirty", "ff", "ff_dirty", "likely_zero",
                                       "likely_ff", "sparse", "random", "random_dup",
                                       "flat64", "text"}}

ClassifierInit ==
    /\ sample \in ClassifierBlocks
    /\ image = <<>>
    /\ pc = "start"
    /\ CallerIdle /\ ReaderIdle /\ ServerIdle /\ UploadIdle
    /\ block_results = <<>>
    /\ stages = NoStages
    /\ aggregated = <<>>
    /\ regions = <<>>
    /\ stats = _empty_stats

\* classify_block(0, 0, data)
ClassifyBlock ==
    /\ pc = "start"
    /\ block_results' = <<classify_block(0, 0, sample)>>
    /\ pc' = "classified"
    /\ UNCHANGED <<image, stages, aggregated, regions, stats, caller_vars, outer_vars>>

ClassifierSpec == ClassifierInit /\ [][ClassifyBlock]_vars

(************************ reader.py: BlockReader ***************************)

\* no scan is in progress
PipelineIdle ==
    /\ image = <<>>
    /\ pc = "idle"
    /\ block_results = <<>>
    /\ stages = NoStages
    /\ aggregated = <<>>
    /\ regions = <<>>
    /\ stats = _empty_stats
    /\ CallerIdle

ReaderSpecInit == PipelineIdle /\ ReaderInit /\ ServerIdle /\ UploadIdle /\ ClassifierIdle

ReaderNext == IterStart \/ IterRead \/ IterNext \/ RandomAccess

ReaderSpec == ReaderSpecInit /\ [][ReaderNext]_vars

(***************** backend_integrate.py: _run_scan_task ********************)

\* run_scan's locals are dropped when it returns or raises
PipelineReset ==
    /\ image' = <<>>
    /\ pc' = "idle"
    /\ block_results' = <<>>
    /\ stages' = NoStages
    /\ aggregated' = <<>>
    /\ regions' = <<>>
    /\ stats' = _empty_stats
    /\ UNCHANGED caller_vars

\* faulty variant of TaskFails: the status is left as it is
TaskFailsStatusKept(message) ==
    /\ scan_state' = [scan_state EXCEPT ![task.session_id].error = message]
    /\ task' = NoTask
    /\ PipelineReset

\* except Exception as e: the session is marked error with str(e)
TaskFails(message) ==
    /\ scan_state' = [scan_state EXCEPT ![task.session_id].status = "error",
                                        ![task.session_id].error = message]
    /\ task' = NoTask
    /\ PipelineReset

\* a scheduled background task starts to run: state = scan_state[session_id]
\* raises KeyError, outside the try, when the session was deleted meanwhile
TaskStart(s) ==
    /\ LoopFree
    /\ scheduled[s] > 0
    /\ scheduled' = [scheduled EXCEPT ![s] = scheduled[s] - 1]
    /\ task' = IF scan_state[s] = NoSession THEN NoTask
               ELSE [NoTask EXCEPT !.session_id = s, !.phase = "construct"]
    /\ UNCHANGED <<scan_state, issued, disk, response, pipeline_vars, reader_vars, upload_vars, classifier_vars>>

\* run_scan up to phase 1: BlockReader(image_path)
TaskConstruct ==
    /\ task.phase = "construct"
    /\ IF disk.image[task.session_id] = NoFile
       THEN /\ TaskFails("Image not found")
            /\ UNCHANGED <<issued, disk, scheduled, response, reader_vars, upload_vars, classifier_vars>>
       ELSE /\ image' = ImageContent(disk.image[task.session_id])
            /\ pc' = "start"
            /\ task' = [task EXCEPT !.phase = "classify",
                                    !.total = Len(ImageContent(disk.image[task.session_id]))]
            /\ UNCHANGED <<block_results, stages, aggregated, regions, stats,
                           caller_vars, scan_state, issued, disk, scheduled,
                           response, reader_vars, upload_vars, classifier_vars>>

\* _progress(done, total)
Progress(done, total) == IF total > 0 THEN (100 * done) \div total ELSE 0

\* phase 1, one read chunk of the reader: the blocks of the chunk are
\* classified and progress_cb is called for every block id divisible by 1000.
\* The reader returns silently when the file is missing as it opens it, and
\* an OSError of f.read propagates.
TaskReadChunk ==
    /\ task.phase = "classify"
    /\ pc = "start"
    /\ LET s     == task.session_id
           done  == Len(block_results)
           upto  == Min(done + READ_CHUNK_BLOCKS, Len(image))
           chunk == [k \in 1..(upto - done) |->
                       LET block == ReadBlock(image, done + k - 1)
                       IN  classify_block(block.id, block.offset, block.data)]
           calls == {id \in done..(upto - 1) : id % 1000 = 0}
       IN  \/ /\ ~task.opened
              /\ disk.image[s] = NoFile
              /\ pc' = "classified"
              /\ task' = [task EXCEPT !.fault = "missing_image"]
              /\ UNCHANGED <<image, block_results, stages, aggregated, regions,
                             stats, caller_vars, scan_state>>
           \/ /\ task.opened \/ disk.image[s] # NoFile
              /\ TaskFails("Input/output error")
           \/ /\ task.opened \/ disk.image[s] # NoFile
              /\ block_results' = block_results \o chunk
              /\ pc' = IF upto = done THEN "classified" ELSE "start"
              /\ task' = [task EXCEPT !.opened = TRUE]
              /\ scan_state' =
                    IF calls = {} THEN scan_state
                    ELSE [scan_state EXCEPT ![s].progress =
                            Progress(CHOOSE id \in calls : \A c \in calls : c <= id,
                                     task.total)]
              /\ UNCHANGED <<image, stages, aggregated, regions, stats,
                             caller_vars>>
    /\ UNCHANGED <<issued, disk, scheduled, response, reader_vars, upload_vars, classifier_vars>>

\* phase 4 and the end of _run_scan_task: write_results creates the result
\* file and dumps the document into it; an OSError before the file is
\* created or during the dump propagates
TaskWrite ==
    /\ task.phase = "classify"
    /\ pc = "scored"
    /\ LET s == task.session_id
       IN  \/ /\ disk' = [disk EXCEPT !.result[s] = "complete"]
              /\ scan_state' = [scan_state EXCEPT ![s].status = "done",
                                                  ![s].progress = 100,
                                                  ![s].json_path = TRUE]
              /\ task' = NoTask
              /\ PipelineReset
           \/ /\ TaskFails("Input/output error")
              /\ UNCHANGED disk
           \/ /\ disk' = [disk EXCEPT !.result[s] = "partial"]
              /\ TaskFails("Input/output error")
    /\ UNCHANGED <<issued, scheduled, response, reader_vars, upload_vars, classifier_vars>>

ServerInit == PipelineIdle /\ ReaderIdle /\ ServerIdle /\ UploadIdle /\ ClassifierIdle

ServerNext ==
    \/ \E s \in SessionIds : \E name \in ImageNames : upload_image(s, name)
    \/ \E s \in SessionIds : start_scan(s)
    \/ \E s \in SessionIds : scan_status(s)
    \/ \E s \in SessionIds : get_results(s)
    \/ \E s \in SessionIds : delete_session(s)
    \/ \E s \in SessionIds : ImageLost(s)
    \/ \E s \in SessionIds : TaskStart(s)
    \/ TaskConstruct
    \/ TaskReadChunk
    \/ Aggregate
    \/ Score
    \/ TaskWrite

ServerSpec == ServerInit /\ [][ServerNext]_vars

UploadNext ==
    \/ \E s \in SessionIds : \E name \in ImageNames : \E size \in UploadSizes :
          UploadOpen(s, name, size)
    \/ UploadChunk
    \/ UploadHash

\* POST /upload by chunk, one upload at a time
UploadSpec == ServerInit /\ [][UploadNext]_vars

\* the event loop runs every background task that was added, and a task that
\* runs goes on to its end: run_scan has no await and reads a finite file
TaskFairness ==
    /\ \A s \in SessionIds : SF_vars(TaskStart(s))
    /\ WF_vars(TaskConstruct)
    /\ WF_vars(TaskReadChunk)
    /\ WF_vars(Aggregate)
    /\ WF_vars(Score)
    /\ WF_vars(TaskWrite)

\* the steps that write the session store, the disk or the task queue: the
\* read-only handlers scan_status and get_results are left out
ServerLiveNext ==
    \/ \E s \in SessionIds : \E name \in ShortImageNames : upload_image(s, name)
    \/ \E s \in SessionIds : start_scan(s)
    \/ \E s \in SessionIds : delete_session(s)
    \/ \E s \in SessionIds : ImageLost(s)
    \/ \E s \in SessionIds : TaskStart(s)
    \/ TaskConstruct
    \/ TaskReadChunk
    \/ Aggregate
    \/ Score
    \/ TaskWrite

ServerLiveSpec == ServerInit /\ [][ServerLiveNext]_vars /\ TaskFairness

(******************************* properties ********************************)

\* aggregate() has returned
AggDone == pc \in {"aggregated", "scored"}

\* 1-based positions of the suspicious blocks of the classification stream
SuspIdx == {k \in 1..Len(block_results) : block_results[k].is_suspicious}

\* the suspicious blocks are exactly one run of n consecutive blocks of type t
OnlyRun(t, n) ==
    /\ \E lo \in 1..Len(block_results) : SuspIdx = lo..(lo + n - 1)
    /\ Cardinality(SuspIdx) = n
    /\ \A k \in SuspIdx : block_results[k].wipe_type = t

\* ... and the run has non-suspicious blocks on both sides
FlankedRun(t, n) ==
    /\ OnlyRun(t, n)
    /\ 1 \notin SuspIdx
    /\ Len(block_results) \notin SuspIdx

Contiguous(blocks) == \A k \in 1..(Len(blocks) - 1) : blocks[k + 1] = blocks[k] + 1

\* r was synthesized by stage 4 (it is not one of the size-filtered regions)
Synthesized(r) ==
    /\ r.wipe_type = "MULTI_PASS"
    /\ \A k \in 1..Len(stages.sized) : stages.sized[k].blocks # r.blocks

VerdictRank(v) ==
    CASE v = "NEGLIGIBLE" -> 0 [] v = "LOW" -> 1 [] v = "MEDIUM" -> 2 [] v = "HIGH" -> 3

\* C1: the regions returned by aggregate() are sorted by strictly increasing
\* start_offset and pairwise non-overlapping: each region ends before the next
\* one starts.
C1_SortedNonOverlapping ==
    AggDone =>
        \A i \in 1..Len(aggregated) : \A j \in 1..Len(aggregated) :
            i < j => /\ aggregated[i].start_offset < aggregated[j].start_offset
                     /\ aggregated[i].end_offset < aggregated[j].start_offset

C1_Witness == AggDone /\ Len(aggregated) >= 3

\* C2: every region returned by aggregate() has block_count >= 16, regions
\* built by noise absorption and synthesized MULTI_PASS regions included.
C2_MinRegionBlocks ==
    AggDone => \A k \in 1..Len(aggregated) : aggregated[k].block_count >= 16

\* a returned region that absorbed a gap of non-suspicious blocks
C2_Witness ==
    /\ AggDone
    /\ \E k \in 1..Len(aggregated) :
          /\ aggregated[k].wipe_type # "MULTI_PASS"
          /\ \E n \in 1..Len(aggregated[k].blocks) :
                ~block_results[aggregated[k].blocks[n] + 1].is_suspicious

\* C3: in every region returned by aggregate() the blocks list is strictly
\* increasing, start_offset = blocks[0] * block_size, end_offset =
\* blocks[last] * block_size + block_size - 1, size = end_offset - start_offset
\* + 1, block_count = len(blocks) and size >= block_count * block_size, with
\* equality unless the region is a multi-pass merge across inter-band gaps.
C3_RegionGeometry ==
    AggDone =>
        \A k \in 1..Len(aggregated) :
            LET r == aggregated[k]
                n == Len(r.blocks)
            IN  /\ n >= 1
                /\ \A m \in 1..(n - 1) : r.blocks[m] < r.blocks[m + 1]
                /\ r.start_offset = r.blocks[1] * 512
                /\ r.end_offset = r.blocks[n] * 512 + 512 - 1
                /\ r.size = r.end_offset - r.start_offset + 1
                /\ r.block_count = n
                /\ r.size >= r.block_count * 512
                /\ (~Synthesized(r) \/ Contiguous(r.blocks))
                      => r.size = r.block_count * 512

\* a synthesized MULTI_PASS region whose bands are separated by gaps
C3_Witness ==
    /\ AggDone
    /\ \E k \in 1..Len(aggregated) :
          /\ Synthesized(aggregated[k])
          /\ aggregated[k].size > aggregated[k].block_count * 512

\* some block of a strong region of rs lies within 50 blocks of r's members
Corroborated(r, rs) ==
    \E k \in 1..Len(rs) :
        /\ rs[k].wipe_type \in {"ZERO_WIPE", "FF_WIPE", "RANDOM_WIPE", "MULTI_PASS"}
        /\ \E n \in 1..Len(rs[k].blocks) :
              /\ r.blocks[1] - 50 <= rs[k].blocks[n]
              /\ rs[k].blocks[n] <= r.blocks[Len(r.blocks)] + 50

IsPartial(r) ==
    r.wipe_type \in {"LIKELY_ZERO_WIPE", "LIKELY_FF_WIPE", "LOW_ENTROPY_SUSPECT"}

Returned(r) == \E k \in 1..Len(aggregated) : aggregated[k].blocks = r.blocks

\* C4: every returned region of type LIKELY_ZERO_WIPE, LIKELY_FF_WIPE or
\* LOW_ENTROPY_SUSPECT has a block of a returned strong region within 50
\* blocks before its first or after its last member block, and a partial
\* region without such a block is not returned.
C4_PartialCorroborated ==
    AggDone =>
        /\ \A k \in 1..Len(aggregated) :
              IsPartial(aggregated[k]) => Corroborated(aggregated[k], aggregated)
        /\ \A k \in 1..Len(stages.with_multi) :
              LET r == stages.with_multi[k]
              IN  (IsPartial(r) /\ ~Corroborated(r, aggregated)) => ~Returned(r)

\* one partial region kept and another one dropped
C4_Witness ==
    /\ AggDone
    /\ \E k \in 1..Len(aggregated) : IsPartial(aggregated[k])
    /\ \E k \in 1..Len(stages.with_multi) :
          IsPartial(stages.with_multi[k]) /\ ~Returned(stages.with_multi[k])

\* the stream is 64 blocks, each classified ZERO_WIPE with confidence 1.0
AllZero64 ==
    /\ Len(block_results) = 64
    /\ \A k \in 1..64 : /\ block_results[k].wipe_type = "ZERO_WIPE"
                        /\ block_results[k].confidence = 100000

OneZeroRegion64 ==
    /\ Len(regions) = 1
    /\ regions[1].wipe_type = "ZERO_WIPE"
    /\ regions[1].block_count = 64
    /\ regions[1].confidence >= 95000

\* C5 as stated: 64 blocks of pure 0x00 fill yield one ZERO_WIPE region with
\* block_count 64 and confidence >= 0.95, intent_score >= 70 and verdict HIGH.
C5_Original ==
    (pc = "scored" /\ AllZero64) =>
        /\ OneZeroRegion64
        /\ stats.intent_score >= 70
        /\ stats.verdict = "HIGH"

\* C5 amended: 64 blocks of pure 0x00 fill yield one ZERO_WIPE region with
\* block_count 64 and confidence >= 0.95; the intent_score is 42 (coverage 40
\* plus 2 for the one region) and the verdict is HIGH.
C5_AllZeros ==
    (pc = "scored" /\ AllZero64) =>
        /\ OneZeroRegion64
        /\ stats.intent_score = 42
        /\ stats.verdict = "HIGH"

C5_Witness == pc = "scored" /\ AllZero64 /\ aggregated = regions

\* C6: a scan whose only suspicious blocks are one run of 40 consecutive
\* LIKELY_ZERO_WIPE blocks has the region suppressed, regions_count = 0 and
\* verdict NEGLIGIBLE.
C6_IsolatedPartial ==
    (pc = "scored" /\ OnlyRun("LIKELY_ZERO_WIPE", 40)) =>
        /\ aggregated = <<>>
        /\ stats.regions_count = 0
        /\ stats.verdict = "NEGLIGIBLE"

\* six consecutive 16-block runs ZERO_WIPE, FF_WIPE, ... , 96 blocks
SixBands ==
    /\ Len(block_results) = 96
    /\ \A k \in 1..96 :
          block_results[k].wipe_type =
              IF ((k - 1) \div 16) % 2 = 0 THEN "ZERO_WIPE" ELSE "FF_WIPE"

\* C7: six consecutive 16-block runs alternating ZERO_WIPE and FF_WIPE yield
\* exactly one region, of type MULTI_PASS, whose blocks are all 96 block
\* indices, and the final verdict is HIGH.
C7_SixBandsMultiPass ==
    /\ (AggDone /\ SixBands) =>
          /\ Len(aggregated) = 1
          /\ aggregated[1].wipe_type = "MULTI_PASS"
          /\ aggregated[1].blocks = [k \in 1..96 |-> k - 1]
    /\ (pc = "scored" /\ SixBands) =>
          /\ regions = aggregated
          /\ stats.verdict = "HIGH"

C7_Witness == pc = "scored" /\ SixBands /\ Len(regions) = 1

OneRandomRegion ==
    /\ Len(aggregated) = 1
    /\ aggregated[1].wipe_type = "RANDOM_WIPE"

\* C8 as stated: 32 consecutive RANDOM_WIPE blocks between any positive
\* numbers of NORMAL blocks yield exactly one region, of type RANDOM_WIPE, and
\* a final verdict of MEDIUM or HIGH.
C8_Original ==
    /\ (AggDone /\ FlankedRun("RANDOM_WIPE", 32)) => OneRandomRegion
    /\ (pc = "scored" /\ FlankedRun("RANDOM_WIPE", 32)) =>
          stats.verdict \in {"MEDIUM", "HIGH"}

\* C8 amended: 32 consecutive RANDOM_WIPE blocks between any positive numbers
\* of NORMAL blocks yield exactly one region, of type RANDOM_WIPE, and a
\* final verdict of at least LOW; the verdict is MEDIUM or HIGH when the
\* stream has at most 529 blocks.
C8_RandomRun ==
    /\ (AggDone /\ FlankedRun("RANDOM_WIPE", 32)) => OneRandomRegion
    /\ (pc = "scored" /\ FlankedRun("RANDOM_WIPE", 32)) =>
          /\ stats.verdict \in {"LOW", "MEDIUM", "HIGH"}
          /\ Len(block_results) <= 529 => stats.verdict \in {"MEDIUM", "HIGH"}

\* the largest stream whose verdict is still MEDIUM
C8_Witness ==
    /\ pc = "scored"
    /\ FlankedRun("RANDOM_WIPE", 32)
    /\ Len(block_results) = 529
    /\ stats.verdict = "MEDIUM"

\* C9: one run of exactly 15 consecutive ZERO_WIPE blocks surrounded by
\* non-suspicious blocks yields no region from aggregate(); a run of exactly
\* 16 yields exactly one ZERO_WIPE region with block_count 16.
C9_SizeBoundary ==
    /\ (AggDone /\ FlankedRun("ZERO_WIPE", 15)) => aggregated = <<>>
    /\ (AggDone /\ FlankedRun("ZERO_WIPE", 16)) =>
          /\ Len(aggregated) = 1
          /\ aggregated[1].wipe_type = "ZERO_WIPE"
          /\ aggregated[1].block_count = 16

C9_Witness == AggDone /\ FlankedRun("ZERO_WIPE", 16) /\ Len(aggregated) = 1

\* rank of the verdict the intent score alone gives
ScoreRank ==
    IF stats.intent_score >= 70 THEN 3
    ELSE IF stats.intent_score >= 35 THEN 2
    ELSE IF stats.intent_score >= 10 THEN 1
    ELSE 0

\* rank of the verdict the wipe density suspicious / total alone gives
DensityRank ==
    LET n == stats.suspicious_blocks
        t == stats.total_blocks
    IN  IF 10 * n > 3 * t THEN 3
        ELSE IF 10 * n > t THEN 2
        ELSE IF 50 * n > t THEN 1
        ELSE IF n >= 2 THEN 1
        ELSE 0

\* C10: for at least one block, the verdict is the maximum, on NEGLIGIBLE <
\* LOW < MEDIUM < HIGH, of the score verdict and the density verdict, and is
\* never lower than the score verdict.
C10_VerdictIsMax ==
    (pc = "scored" /\ Len(block_results) >= 1) =>
        /\ VerdictRank(stats.verdict) = Max(ScoreRank, DensityRank)
        /\ VerdictRank(stats.verdict) >= ScoreRank

\* the score verdict is the higher of the two
C10_Witness ==
    /\ pc = "scored"
    /\ Len(block_results) >= 1
    /\ ScoreRank > DensityRank

\* the flat stream built from a region list: every member block of a region
\* carries that region's wipe_type and is suspicious, every other block of the
\* n-block stream is NORMAL
SyntheticStream(rs, n) ==
    [k \in 1..n |->
        LET bid    == k - 1
            owners == {i \in 1..Len(rs) : bid \in Elems(rs[i].blocks)}
        IN  IF owners # {}
            THEN _result(bid, bid * BLOCK_SIZE,
                         rs[CHOOSE i \in owners : \A m \in owners : i <= m].wipe_type,
                         0, 50000, TRUE)
            ELSE _result(bid, bid * BLOCK_SIZE, "NORMAL", 0, 90000, FALSE)]

RegionKey(r) == <<r.start_offset, r.end_offset, r.wipe_type, r.blocks, r.block_count>>

RegionKeys(rs) == {RegionKey(rs[k]) : k \in 1..Len(rs)}

\* C12: aggregate() is idempotent: running it again on the flat stream built
\* from the regions it returned gives the same region set (start_offset,
\* end_offset, wipe_type, blocks and block_count of every region).
C12_Idempotent ==
    AggDone =>
        RegionKeys(aggregate(SyntheticStream(aggregated, Len(block_results))))
            = RegionKeys(aggregated)

C14_MinSize64KiB ==
    AggDone => \A k \in 1..Len(aggregated) : aggregated[k].size >= 65536

\* C15: the scan of an empty image completes with total_blocks = 0,
\* intent_score = 0, verdict NEGLIGIBLE and no region.
C15_EmptyImage ==
    (pc = "scored" /\ image = <<>>) =>
        /\ stats.total_blocks = 0
        /\ stats.intent_score = 0
        /\ stats.verdict = "NEGLIGIBLE"
        /\ stats.regions_count = 0
        /\ regions = <<>>

C15_Witness == pc = "scored" /\ image = <<>> /\ block_results = <<>>

\* the penalty points (stage 3 of compute_score) of a call with these block
\* counts and regions
PenaltyPoints(st, rs) ==
    LET tc      == st.wipe_type_counts
        strong  == tc["ZERO_WIPE"] + tc["FF_WIPE"] + tc["RANDOM_WIPE"] + tc["MULTI_PASS"]
        partial == tc["LIKELY_ZERO_WIPE"] + tc["LIKELY_FF_WIPE"] + tc["LOW_ENTROPY_SUSPECT"]
        Conf(r) == r.confidence
    IN  (IF st.suspicious_blocks > 0 /\ partial > strong /\ strong < 10 THEN 10 ELSE 0)
        + (IF rs # <<>> /\ SumSeq([k \in 1..Len(rs) |-> Conf(rs[k])]) < 55000 * Len(rs)
           THEN 5 ELSE 0)

\* one of the four inputs was raised since the previous call
Raised == raised.input # "none"

\* C11 as stated: raising one of suspicious_pct, region count, RANDOM_WIPE
\* region count and MULTI_PASS region count, the other three held fixed, never
\* lowers intent_score.
C11_Original ==
    Raised => stats.intent_score >= raised.stats_before.intent_score

\* C11 (amended): raising one of the four inputs, the other three held fixed,
\* never lowers intent_score when the same penalties apply before and after.
C11_MonotoneFixedPenalty ==
    (Raised /\ PenaltyPoints(stats, regions)
                 = PenaltyPoints(raised.stats_before, raised.regions_before))
        => stats.intent_score >= raised.stats_before.intent_score

C11_Witness ==
    /\ raised.input = "regions"
    /\ PenaltyPoints(stats, regions) = 5
    /\ PenaltyPoints(raised.stats_before, raised.regions_before) = 5
    /\ stats.intent_score > raised.stats_before.intent_score

\* ceil(image_size / block_size)
CeilBlocks(r) ==
    IF r.image_size % r.block_size = 0
    THEN r.image_size \div r.block_size
    ELSE r.image_size \div r.block_size + 1

\* the bytes of block id of the image
ImageBytes(r, id) ==
    <<id * r.block_size, Min((id + 1) * r.block_size, r.image_size)>>

\* C16: sequential iteration with default bounds yields exactly ceil(S/B)
\* blocks, with the ids 0, 1, ... in order, offset = id * B, B bytes in every
\* block but possibly the last (S - (n-1) * B bytes), and the data of block id
\* is the image's bytes from id * B on, so that the blocks concatenate to the
\* image, across read chunks too.
C16_SequentialBlocks ==
    rd.phase # "idle" =>
        LET r == rd.reader
            n == CeilBlocks(r)
            b == rd.yielded
        IN  /\ rd.count <= n
            /\ rd.phase = "done" => rd.count = n
            /\ rd.count = 0 => b = NoBlock
            /\ rd.count > 0 =>
                  /\ b.id = rd.count - 1
                  /\ b.offset = b.id * r.block_size
                  /\ b.data = ImageBytes(r, b.id)
                  /\ b.id < n - 1 => DataLen(b.data) = r.block_size
                  /\ b.id = n - 1 =>
                        DataLen(b.data) = r.image_size - (n - 1) * r.block_size

\* the iteration is over, it went through more than two read chunks and the
\* last block is short
C16_Witness ==
    /\ rd.phase = "done"
    /\ rd.count > 2 * READ_CHUNK_BLOCKS
    /\ rd.reader.block_size # BLOCK_SIZE
    /\ DataLen(rd.yielded.data) < rd.reader.block_size

\* C17: read_block(id), id >= 0, fails with IndexError exactly when
\* id * block_size >= image_size, and otherwise returns the block with the id,
\* offset and data that sequential iteration yields for that id.
C17_ReadBlock ==
    rb # NoRead =>
        /\ rb.error = "IndexError" <=> rb.id * rd.reader.block_size >= rd.reader.image_size
        /\ rb.error = "none" =>
              /\ rb.block.id = rb.id
              /\ rd.yielded.id = rb.id => rb.block = rd.yielded

\* read_block returned the short last block of an image of more than one read
\* chunk, and the iteration has just yielded the same block
C17_Witness ==
    /\ rb.error = "none"
    /\ rb.id >= READ_CHUNK_BLOCKS
    /\ rd.yielded = rb.block
    /\ DataLen(rb.block.data) < rd.reader.block_size


\* the orchestrator runs of session s that are scheduled or executing
RunsOf(s) == scheduled[s] + (IF task # NoTask /\ task.session_id = s THEN 1 ELSE 0)

\* what a POST /scan step for session s must do
StartScanContract(s) ==
    CASE scan_state[s].status = "absent" ->
            /\ response' = Respond("scan", s, 404)
            /\ UNCHANGED <<scan_state, scheduled, task>>
      [] scan_state[s].status = "running" ->
            /\ response' = Respond("scan", s, 409)
            /\ UNCHANGED <<scan_state, scheduled, task>>
      [] OTHER ->
            /\ response' = Respond("scan", s, 200)
            /\ scan_state'[s].status = "running"
            /\ \A o \in SessionIds \ {s} : scan_state'[o] = scan_state[o]
            /\ scheduled' = [scheduled EXCEPT ![s] = scheduled[s] + 1]
            /\ UNCHANGED task

\* C18: POST /scan moves a known session that is not running to running and
\* schedules exactly one orchestrator run; for an unknown session it answers
\* 404 and for a running session 409, leaving the session store and the
\* scheduled runs unchanged; at every time at most one orchestrator run per
\* session is scheduled or executing
C18_StartScan ==
    /\ [](\A s \in SessionIds : RunsOf(s) <= 1)
    /\ [][\A s \in SessionIds : start_scan(s) => StartScanContract(s)]_vars

\* C18 witness: a POST /scan for a running session whose run is still
\* scheduled has been answered with 409
C18_Witness ==
    \E s \in SessionIds :
        /\ response = Respond("scan", s, 409)
        /\ scan_state[s].status = "running"
        /\ RunsOf(s) = 1


\* C19: while the orchestrator of a session executes as a background task,
\* a GET /scan/status request for that session can be answered
C19_StatusNotBlocked ==
    task # NoTask => ENABLED scan_status(task.session_id)


\* the step with which the background task of session s ends
TaskEnds(s) == task # NoTask /\ task.session_id = s /\ task' = NoTask

\* the run of session s that ends with this step failed: the image was
\* missing when the reader opened it, or an exception reached _run_scan_task
RunFailed(s) == task.fault # "none" \/ scan_state'[s].status = "error"

\* C20: when the orchestrator fails at any phase of a scan, the session's
\* status becomes error with the message recorded, and the run leaves no
\* result document of its own
C20_FailureLeavesNoResult ==
    [][\A s \in SessionIds :
          TaskEnds(s) /\ RunFailed(s) =>
              /\ scan_state'[s].status = "error"
              /\ scan_state'[s].error # ""
              /\ disk'.result[s] = disk.result[s]]_vars


\* nothing of session s is left: no image, no result document, no record
Gone(s) ==
    /\ disk.image[s] = NoFile
    /\ disk.result[s] = "nothing"
    /\ scan_state[s] = NoSession

\* C21: once DELETE /session/{session_id} has returned, the stored image,
\* the result document and the session record are gone and stay gone, also
\* when a scan of the session was scheduled at the DELETE; status and
\* results queries are answered with 404
C21_DeletedStaysGone ==
    [][\A s \in SessionIds :
          /\ delete_session(s) => Gone(s)'
          /\ s \in issued /\ Gone(s) => Gone(s)'
          /\ s \in issued /\ Gone(s) /\ scan_status(s) => response'.code = 404
          /\ s \in issued /\ Gone(s) /\ get_results(s) => response'.code = 404]_vars

\* C21 witness: DELETE has just returned for a session whose scan was
\* scheduled and had not started
C21_Witness ==
    \E s \in SessionIds :
        /\ response = Respond("delete", s, 200)
        /\ s \in issued
        /\ Gone(s)
        /\ scheduled[s] = 1


\* C23: a session that is running reaches done or error unless it is
\* deleted, given that the background tasks are executed; the status of a
\* session is always one of pending, running, done, error
C23_RunningEnds ==
    /\ [](\A s \in SessionIds :
             scan_state[s] # NoSession =>
                 scan_state[s].status \in {"pending", "running", "done", "error"})
    /\ \A s \in SessionIds :
          (scan_state[s].status = "running") ~>
              (scan_state[s].status \in {"done", "error"} \/ scan_state[s] = NoSession)

\* C23 witness: one session has been scanned twice and is done, the run of
\* the other session has ended with an error
C23_Witness ==
    \E s \in SessionIds : \E o \in SessionIds \ {s} :
        /\ scan_state[s].status = "done"
        /\ scan_state[s].error # ""
        /\ scan_state[o].status = "error"
        /\ task = NoTask


\* C22: an upload whose cumulative size exceeds MAX_SIZE is rejected with
\* 413 at the chunk with which the count crosses the limit, the chunk is not
\* written; after the rejection the file does not exist and the session has
\* no record; an upload of at most MAX_SIZE bytes is not rejected
C22_UploadLimit ==
    /\ up.phase = "stream" =>
          /\ ~Greater(up.total_bytes, MAX_SIZE)
          /\ up.written = up.total_bytes
    /\ up.phase = "rejected" =>
          /\ Greater(up.size, MAX_SIZE)
          /\ Greater(up.total_bytes, MAX_SIZE)
          /\ ~Greater(up.total_bytes, Plus(MAX_SIZE, CHUNK_SIZE))
          /\ response = Respond("upload", up.session_id, 413)
    /\ Greater(up.size, MAX_SIZE) => up.phase \notin {"hash", "done"}
    /\ \A s \in SessionIds :
          response = Respond("upload", s, 413) =>
              disk.image[s] = NoFile /\ scan_state[s] = NoSession

\* C22 witness: a file of 8 GiB + 1 MiB + 1 byte has been rejected after
\* 8 GiB + 1 MiB were read
C22_Witness ==
    /\ up.phase = "rejected"
    /\ up.size = ByteCount(8 * 1024 + 1, 1)
    /\ up.total_bytes = ByteCount(8 * 1024 + 1, 0)
    /\ response = Respond("upload", up.session_id, 413)


\* the block ids first..last in order
IdRange(first, last) == [k \in 1..(last - first + 1) |-> first + k - 1]

\* number of blocks between two stage 1 runs that follow each other
RunGap(a, b) == b.blocks[1] - a.blocks[Len(a.blocks)] - 1

\* the stage 1 runs whose blocks lie in region r
RunsIn(r) ==
    {k \in 1..Len(stages.raw) : Elems(stages.raw[k].blocks) \subseteq Elems(r.blocks)}

\* C24: after stage 2, two runs of the same wipe_type that follow each other
\* with g non-suspicious blocks between them lie in one region when g <= 8
\* and in two when g >= 9; a region lists its runs and every block between
\* them (block_count is their number), over any number of fused runs
C24_FusionBoundary ==
    AggDone =>
        /\ \A k \in 1..(Len(stages.raw) - 1) :
              LET a == stages.raw[k]
                  b == stages.raw[k + 1]
                  Together == \E n \in 1..Len(stages.absorbed) :
                                  {k, k + 1} \subseteq RunsIn(stages.absorbed[n])
              IN  a.wipe_type = b.wipe_type =>
                      (Together <=> RunGap(a, b) <= MAX_NORMAL_GAP)
        /\ \A n \in 1..Len(stages.absorbed) :
              LET r == stages.absorbed[n]
              IN  /\ r.blocks = IdRange(r.blocks[1], r.blocks[Len(r.blocks)])
                  /\ r.block_count = Len(r.blocks)
                  /\ RunsIn(r) # {}
                  /\ \A k \in RunsIn(r) : stages.raw[k].wipe_type = r.wipe_type

\* C24 witness: three runs of 8 blocks with gaps of 8 blocks have become
\* one region of 40 blocks
C24_Witness ==
    /\ AggDone
    /\ \E n \in 1..Len(stages.absorbed) :
          /\ Cardinality(RunsIn(stages.absorbed[n])) = 3
          /\ stages.absorbed[n].block_count = 40
          /\ \A k \in RunsIn(stages.absorbed[n]) \ {Len(stages.raw)} :
                k + 1 \in RunsIn(stages.absorbed[n]) =>
                    RunGap(stages.raw[k], stages.raw[k + 1]) = MAX_NORMAL_GAP


\* two means <<sum, count>> are the same number
SameMean(x, y) ==
    /\ x[1] \div x[2] = y[1] \div y[2]
    /\ (x[1] % x[2]) * y[2] = (y[1] % y[2]) * x[2]

\* C25: the avg_entropy of a region that stage 2 fused from several runs is
\* the mean entropy over every index of its blocks list, the absorbed gap
\* blocks included
C25_FusedEntropy ==
    AggDone =>
        \A n \in 1..Len(stages.absorbed) :
            LET r == stages.absorbed[n]
            IN  Cardinality(RunsIn(r)) >= 2 =>
                    SameMean(r.avg_entropy, MeanEntropy(r.blocks, block_results))


\* region b continues a chain after region a: the types differ, both are
\* strong, and at most 4 blocks lie between them
Linked(a, b) ==
    /\ a.wipe_type # b.wipe_type
    /\ a.wipe_type \in STRONG_WIPE_TYPES
    /\ b.wipe_type \in STRONG_WIPE_TYPES
    /\ b.blocks[1] - a.blocks[Len(a.blocks)] - 1 <= MULTI_PASS_GAP_BLOCKS

\* last position of the maximal chain that starts at position i of rs
ChainLast(rs, i) ==
    LET Ends == {j \in i..Len(rs) : \A k \in i..(j - 1) : Linked(rs[k], rs[k + 1])}
    IN  CHOOSE j \in Ends : \A m \in Ends : m <= j

\* what the greedy scan emits for rs from position i on: for a chain the
\* fields of the MULTI_PASS region, else the region itself
RECURSIVE GreedyBands(_, _)
GreedyBands(rs, i) ==
    IF i > Len(rs) THEN <<>>
    ELSE LET j == ChainLast(rs, i)
         IN  IF j - i + 1 >= 3
             THEN <<[wipe_type    |-> "MULTI_PASS",
                     blocks       |-> ConcatBlocks(SubSeq(rs, i, j), j - i + 1),
                     block_count  |-> SumSeq([k \in i..j |-> rs[k].block_count]),
                     start_offset |-> rs[i].start_offset,
                     end_offset   |-> rs[j].end_offset]>>
                  \o GreedyBands(rs, j + 1)
             ELSE <<rs[i]>> \o GreedyBands(rs, i + 1)

\* C26: stage 4 scans the size-filtered regions from the left; a maximal
\* chain of at least 3 linked regions becomes one MULTI_PASS region (blocks
\* concatenated, block_count summed, start of the first, end of the last),
\* any other region is emitted unchanged, a chain of two is never converted
C26_GreedyBands ==
    AggDone =>
        LET expected == GreedyBands(stages.sized, 1)
            got      == stages.with_multi
        IN  /\ Len(got) = Len(expected)
            /\ \A n \in 1..Len(got) :
                  IF "id" \in DOMAIN expected[n]
                  THEN got[n] = expected[n]
                  ELSE /\ got[n].wipe_type = expected[n].wipe_type
                       /\ got[n].blocks = expected[n].blocks
                       /\ got[n].block_count = expected[n].block_count
                       /\ got[n].start_offset = expected[n].start_offset
                       /\ got[n].end_offset = expected[n].end_offset

\* C26 witness: three regions of alternating strong types, the second 4
\* blocks after the first, have become one MULTI_PASS region of 48 blocks
C26_Witness ==
    /\ AggDone
    /\ Len(stages.sized) = 3
    /\ Linked(stages.sized[1], stages.sized[2])
    /\ Linked(stages.sized[2], stages.sized[3])
    /\ stages.sized[2].blocks[1] - stages.sized[1].blocks[16] - 1 = MULTI_PASS_GAP_BLOCKS
    /\ Len(stages.with_multi) = 1
    /\ stages.with_multi[1].wipe_type = "MULTI_PASS"
    /\ stages.with_multi[1].block_count = 48


\* the classification of member k of region r
Member(r, k) == block_results[r.blocks[k] + 1]

\* C30: in every region returned by aggregate() the first and the last
\* member are suspicious blocks, every non-suspicious member lies between
\* two suspicious members, at most 8 non-suspicious members follow one
\* another, and the suspicious members carry the region's wipe_type unless
\* the region is a merge of bands
C30_RegionMembers ==
    AggDone =>
        \A n \in 1..Len(aggregated) :
            LET r == aggregated[n]
                m == Len(r.blocks)
                Susp == {k \in 1..m : Member(r, k).is_suspicious}
            IN  /\ m > 0
                /\ 1 \in Susp
                /\ m \in Susp
                /\ \A k \in 1..(m - 1) : r.blocks[k] < r.blocks[k + 1]
                /\ \A k \in (1..m) \ Susp :
                      /\ \E a \in Susp : a < k
                      /\ \E b \in Susp : k < b
                /\ \A k \in 1..(m - MAX_NORMAL_GAP) :
                      \E j \in k..(k + MAX_NORMAL_GAP) : j \in Susp
                /\ \/ \A k \in Susp : Member(r, k).wipe_type = r.wipe_type
                   \/ /\ r.wipe_type = "MULTI_PASS"
                      /\ \A k \in Susp : Member(r, k).wipe_type \in STRONG_WIPE_TYPES

\* C30 witness: a returned region has 8 absorbed non-suspicious members in
\* a row between suspicious members
C30_Witness ==
    /\ AggDone
    /\ \E n \in 1..Len(aggregated) :
          LET r == aggregated[n]
          IN  \E k \in 2..(Len(r.blocks) - MAX_NORMAL_GAP) :
                 /\ Member(r, k - 1).is_suspicious
                 /\ \A j \in k..(k + MAX_NORMAL_GAP - 1) : ~Member(r, j).is_suspicious
                 /\ Member(r, k + MAX_NORMAL_GAP).is_suspicious


\* C28: compute_score with at least two suspicious blocks returns a verdict
\* of at least LOW, whatever the intent_score, the regions and the penalties
C28_TwoSuspiciousLow ==
    pc = "scored" /\ stats.suspicious_blocks >= 2 =>
        stats.verdict \in {"LOW", "MEDIUM", "HIGH"}

\* C28 witness: two suspicious blocks in 100, a wipe_density of 0.02, both
\* penalties applied and an intent_score of 0: the verdict is LOW
C28_Witness ==
    /\ pc = "scored"
    /\ stats.suspicious_blocks = 2
    /\ stats.total_blocks = 100
    /\ PenaltyPoints(stats, regions) = 15
    /\ stats.intent_score = 0
    /\ stats.verdict = "LOW"


\* the rows 1 to 8 of the decision table, primed rows included, as
\* conditions on a block's bytes
Row1(d) == _stats_from_data(d).zero_ratio >= 9000 /\ d.H <= 200000

Row2(d) == _stats_from_data(d).ff_ratio >= 9000 /\ d.H <= 200000

Row3(d) == 6000 <= _stats_from_data(d).zero_ratio /\ _stats_from_data(d).zero_ratio < 9000

Row4(d) == 6000 <= _stats_from_data(d).ff_ratio /\ _stats_from_data(d).ff_ratio < 9000

Row5(d) == d.H >= 7600000

Row6(d) == 210000 < d.H /\ d.H <= 1500000 /\ 100 * d.dom_n <= 85 * d.len /\ d.unif < 20000

Row7(d) == 3500000 <= d.H /\ d.H <= 6500000 /\ d.unif < 8000

Row8(d) == d.dom_byte = 0 /\ 70 * d.len <= 100 * d.dom_n /\ 10 * d.dom_n < 9 * d.len

MatchesARow(d) ==
    Row1(d) \/ Row2(d) \/ Row3(d) \/ Row4(d) \/ Row5(d) \/ Row6(d) \/ Row7(d) \/ Row8(d)

\* C27 as stated: a non-empty block that matches none of the rows 1 to 8 is
\* returned as NORMAL, not suspicious, with confidence 0.90
C27_Fallthrough ==
    pc = "classified" /\ sample.len > 0 /\ ~MatchesARow(sample) =>
        /\ block_results[1].wipe_type = "NORMAL"
        /\ ~block_results[1].is_suspicious
        /\ block_results[1].confidence = 90000

\* for every length up to BLOCK_SIZE and every count n0 of 0x00 bytes: if
\* 0x00 has a share in [0.70, 0.90) the rounded zero_ratio is in the band
\* that the partial-zero branch tests
PartialBandCoversRow8 ==
    \A len \in 1..BLOCK_SIZE : \A n0 \in 0..len :
        70 * len <= 100 * n0 /\ 10 * n0 < 9 * len =>
            /\ ZERO_FF_PARTIAL_MIN <= RoundHalfEven(n0 * 10000, len)
            /\ RoundHalfEven(n0 * 10000, len) < ZERO_FF_STRONG_MIN

====
